---- MODULE Spec2Model ----
(***************************************************************************)
(* Simulation core of CarRacingGame: the coordinated traffic lights of     *)
(* the centre Track, the player vehicle (Car / Motorcycle) with its        *)
(* transmission, and the game loop's building-collision step.              *)
(*                                                                         *)
(* Units.  The source computes in floating point; the model computes in    *)
(* integers, in units in which every constant of the source is a whole     *)
(* number:                                                                 *)
(*   time      1/60 s  (the dt the source passes to update_gear_shifting)  *)
(*   speed     1e-6 world units per tick                                   *)
(*   position  1e-6 world units                                            *)
(*   angles    1e-3 degree                                                 *)
(*   rpm       1 rpm                                                       *)
(* NPC cars, whose distances are compared through squares, are kept in     *)
(* coarser units: position 1e-3 world units, speed 1e-3 world units per    *)
(* tick, acceleration delay 1/6000 s (1/100 of a tick).                    *)
(***************************************************************************)
EXTENDS Integers, Sequences, FiniteSets, TLC

VARIABLES
    traffic_lights,   \* Track.traffic_lights of the centre track, in list order
    phase_clock,      \* time since the master was first green with timer 0, modulo one cycle; -1: not yet / dt not fixed
    dt_used,          \* the dt of every update_traffic_lights call so far; -1: no call yet, -2: calls differed
    vehicle,          \* Game.vehicle: the fields of the player's Car or Motorcycle
    buildings,        \* the buildings of all tracks (all_buildings of Game.run)
    keys,             \* the key snapshot of the last tick
    collided,         \* what check_building_collision returned in the last tick
    tick,             \* number of game-loop ticks so far
    shift_elapsed,    \* time (1/60 s) update_gear_shifting has counted down since the last shift began; -1: no shift yet
    op,               \* the method a test harness called last on the car ("" when none)
    start_gear,       \* the gear in which a held-speed run began (0 outside such a run)
    gear_changes,     \* number of changes of current_gear during a held-speed run
    gear_trace,       \* the gears auto_shift chose, in order, during a held-speed run
    npc_cars,         \* Game.npc_cars: the fields of the NPC cars, in list order
    npc_spawn_timer,  \* Game.npc_spawn_timer
    twin_cars,        \* npc_cars of a second run given the same states, inputs and dt
    npc_updated,      \* the NPC cars of the last update_npc_cars after their update_ai, before the removal
    returned,         \* what the method called last on NPC cars returned, one entry per car it was called on
    tracks,           \* Game.tracks: the buildings of every Track constructed so far
    site,             \* the Track whose __init__ is running create_buildings: its position, its buildings, the quadrant and building the loops are at
    loading           \* the LoadingScreen: current_stage, tasks_completed, progress

lightVars == <<traffic_lights, phase_clock, dt_used>>
gameVars == <<vehicle, buildings, keys, collided, tick, shift_elapsed>>
harnessVars == <<op, start_gear, gear_changes, gear_trace>>
npcVars == <<npc_cars, npc_spawn_timer, twin_cars, npc_updated, returned>>
loadVars == <<tracks, site, loading>>

vars == <<traffic_lights, phase_clock, dt_used, vehicle, buildings, keys, collided,
          tick, shift_elapsed, op, start_gear, gear_changes, gear_trace,
          npc_cars, npc_spawn_timer, twin_cars, npc_updated, returned, tracks, site, loading>>

(***************************************************************************)
(* TrafficLight and Track.update_traffic_lights                            *)
(***************************************************************************)

\* TrafficLight.__init__: phase durations, in 1/60 s.
green_duration == 300
yellow_duration == 120
red_duration == 300

\* Largest dt (1/60 s) handed to update_traffic_lights in the model: longer
\* than the longest phase.
MaxDt == 310

\* The dt values of the model: no time, one frame at 60 FPS, a value dividing
\* no phase, 0.25 s, 0.5 s, 1 s, whole phases, and MaxDt.
DtChoices == {0, 1, 7, 15, 30, 60, yellow_duration, green_duration, MaxDt}

LightStates == {"green", "yellow", "red", "red-yellow"}

\* TrafficLight.__init__(direction): the state and timer the constructor leaves.
TrafficLight(direction) ==
    IF direction = "vertical"
    THEN [direction |-> direction, state |-> "red",
          state_timer |-> green_duration + yellow_duration]
    ELSE [direction |-> direction, state |-> "green", state_timer |-> 0]

\* Track.create_traffic_lights for the centre track: four lights, the state of
\* each overwritten after construction (the timer keeps the constructor's value).
create_traffic_lights ==
    << [TrafficLight("horizontal") EXCEPT !.state = "red"],
       [TrafficLight("horizontal") EXCEPT !.state = "red"],
       [TrafficLight("vertical") EXCEPT !.state = "green"],
       [TrafficLight("vertical") EXCEPT !.state = "green"] >>

\* The first light of the list with direction "horizontal"; 0 when there is none.
MasterIndex(lights) ==
    IF \E i \in DOMAIN lights : lights[i].direction = "horizontal"
    THEN CHOOSE i \in DOMAIN lights :
            /\ lights[i].direction = "horizontal"
            /\ \A j \in 1..(i - 1) : lights[j].direction # "horizontal"
    ELSE 0

\* AdvanceMaster with the phase ends compared by > instead of >=.
AdvanceMaster_Late(m, dt) ==
    LET t == m.state_timer + dt
        d == IF m.state \in {"green", "red"} THEN green_duration ELSE yellow_duration
        next == CASE m.state = "green" -> "yellow"
                  [] m.state = "yellow" -> "red"
                  [] m.state = "red" -> "red-yellow"
                  [] OTHER -> "green"
    IN IF t > d THEN [m EXCEPT !.state = next, !.state_timer = 0]
       ELSE [m EXCEPT !.state_timer = t]

\* The master's timer advanced by dt and its state stepped at most once.
AdvanceMaster(m, dt) ==
    LET t == m.state_timer + dt IN
    CASE m.state = "green" ->
            IF t >= green_duration
            THEN [m EXCEPT !.state = "yellow", !.state_timer = 0]
            ELSE [m EXCEPT !.state_timer = t]
      [] m.state = "yellow" ->
            IF t >= yellow_duration
            THEN [m EXCEPT !.state = "red", !.state_timer = 0]
            ELSE [m EXCEPT !.state_timer = t]
      [] m.state = "red" ->
            IF t >= red_duration
            THEN [m EXCEPT !.state = "red-yellow", !.state_timer = 0]
            ELSE [m EXCEPT !.state_timer = t]
      [] m.state = "red-yellow" ->
            IF t >= yellow_duration
            THEN [m EXCEPT !.state = "green", !.state_timer = 0]
            ELSE [m EXCEPT !.state_timer = t]
      [] OTHER -> [m EXCEPT !.state_timer = t]

\* VerticalState that leaves a vertical light in the state it had.
VerticalState_Stale(masterState, old) == old

\* The state a vertical light takes for a master state.
VerticalState(masterState, old) ==
    CASE masterState = "green" -> "red"
      [] masterState = "yellow" -> "red-yellow"
      [] masterState = "red" -> "green"
      [] masterState = "red-yellow" -> "yellow"
      [] OTHER -> old

\* SyncLights that copies the states and leaves every light its own timer.
SyncLights_NoTimer(lights, m) ==
    [i \in DOMAIN lights |->
        IF lights[i].direction = "horizontal"
        THEN [lights[i] EXCEPT !.state = m.state]
        ELSE [lights[i] EXCEPT !.state = VerticalState(m.state, lights[i].state)]]

\* The synchronisation loop: every light takes the master's timer; horizontal
\* lights take its state, vertical lights the opposite phase.
SyncLights(lights, m) ==
    [i \in DOMAIN lights |->
        IF lights[i].direction = "horizontal"
        THEN [lights[i] EXCEPT !.state_timer = m.state_timer, !.state = m.state]
        ELSE [lights[i] EXCEPT !.state_timer = m.state_timer,
                               !.state = VerticalState(m.state, lights[i].state)]]

\* Track.update_traffic_lights(dt) as a function of the list of lights.
update_traffic_lights(lights, dt) ==
    IF lights = << >> THEN lights
    ELSE LET mi == MasterIndex(lights) IN
         IF mi = 0 THEN lights
         ELSE SyncLights(lights, AdvanceMaster(lights[mi], dt))

Master(lights) == lights[MasterIndex(lights)]

\* One cycle of the four phases.
CycleLength == green_duration + yellow_duration + red_duration + yellow_duration

\* The ghost clocks of a call with this dt that leaves the lights as `after`.
NextDtUsed(dt) ==
    IF dt_used = -1 \/ dt_used = dt THEN dt ELSE -2

NextPhaseClock(after, dt) ==
    IF NextDtUsed(dt) = -2 THEN -1
    ELSE IF phase_clock >= 0 THEN (phase_clock + dt) % CycleLength
    ELSE IF Master(after).state = "green" /\ Master(after).state_timer = 0 THEN 0
    ELSE -1

LightsAtConstruction ==
    /\ traffic_lights = create_traffic_lights
    /\ phase_clock = -1
    /\ dt_used = -1

\* A call of Track.update_traffic_lights(dt) on the centre track.
TrackUpdate(dt) ==
    LET after == update_traffic_lights(traffic_lights, dt) IN
    /\ traffic_lights' = after
    /\ dt_used' = NextDtUsed(dt)
    /\ phase_clock' = NextPhaseClock(after, dt)


(***************************************************************************)
(* Arithmetic                                                              *)
(***************************************************************************)

Abs(n) == IF n < 0 THEN -n ELSE n
Min(a, b) == IF a < b THEN a ELSE b
Max(a, b) == IF a > b THEN a ELSE b

\* a / b rounded toward zero: the model's value of a product or quotient the
\* source computes in floating point.
Trunc(a, b) == IF a >= 0 THEN a \div b ELSE -((-a) \div b)

\* 1000 * sin of a whole number of degrees in 0..359 (Bhaskara's rational
\* approximation of math.sin, exact at 0, 30, 90, 150, 180 degrees).
SinDeg(d) ==
    LET h == IF d < 180 THEN d ELSE d - 180
        p == h * (180 - h)
        s == (4000 * p) \div (40500 - p)
    IN IF d < 180 THEN s ELSE -s

\* 1000 * math.sin(math.radians(angle)) and 1000 * math.cos(math.radians(angle))
\* for an angle in 1e-3 degree, of any sign and size.
Sin(angle) == SinDeg((angle \div 1000) % 360)
Cos(angle) == SinDeg(((angle \div 1000) + 90) % 360)

(***************************************************************************)
(* Vehicle, Car and Motorcycle: constants                                  *)
(***************************************************************************)

Kinds == {"car", "motorcycle"}

\* 0.9 for both kinds.
max_speed(kind) == 900000
\* 0.0015 (Car), 0.006 (Motorcycle).
base_acceleration(kind) == IF kind = "car" THEN 1500 ELSE 6000
\* friction in percent: 0.95 (Vehicle), 0.98 (Motorcycle).
friction(kind) == IF kind = "car" THEN 95 ELSE 98
\* 7.0 and 8.5 degrees.
turn_speed(kind) == IF kind = "car" THEN 7000 ELSE 8500
\* 60 and 45 degrees.
max_steering_angle(kind) == IF kind = "car" THEN 60000 ELSE 45000
idle_rpm(kind) == IF kind = "car" THEN 800 ELSE 1000
max_rpm(kind) == IF kind = "car" THEN 5500 ELSE 8000
\* Motorcycle.shift_up_rpm and shift_down_rpm.
shift_up_rpm == 7000
shift_down_rpm == 2500
\* Number of gears.
TopGear(kind) == IF kind = "car" THEN 6 ELSE 5

\* gear_ratios, times ten.
gear_ratios(kind, gear) ==
    IF kind = "car"
    THEN <<22, 16, 12, 9, 7, 5>>[gear]
    ELSE <<32, 22, 16, 12, 9>>[gear]

\* gear_speed_limits, in percent of max_speed.
gear_speed_limits(kind, gear) ==
    IF kind = "car"
    THEN <<16, 28, 42, 58, 72, 100>>[gear]
    ELSE <<20, 35, 55, 75, 100>>[gear]

\* max_speed * gear_speed_limits[gear].
GearSpeedLimit(kind, gear) == (max_speed(kind) * gear_speed_limits(kind, gear)) \div 100

\* Car.shift_duration, 0.6 s.
shift_duration == 36
\* Car.shift_speed_reduction is 0.1: the divisor the model applies.
shift_speed_reduction == 10
\* The dt Car.update passes to update_gear_shifting: 1/60 s.
FrameDt == 1

\* abs(speed) > 0.01, the turning threshold.
TurnThreshold == 10000

\* The record of a vehicle as Vehicle.__init__, Car.__init__ or
\* Motorcycle.__init__ and Game.confirm_vehicle_selection leave it. A
\* Motorcycle has no is_shifting and shift_timer: the record keeps them FALSE, 0.
Construct(kind) ==
    [kind |-> kind,
     x |-> 10000000, z |-> 0, prev_x |-> 10000000, prev_z |-> 0,
     angle |-> 270000, speed |-> 0, steering_angle |-> 0,
     current_gear |-> 1, rpm |-> 0, auto_transmission |-> TRUE,
     is_shifting |-> FALSE, shift_timer |-> 0,
     braking |-> FALSE, turning_left |-> FALSE, turning_right |-> FALSE]

\* A key snapshot. toggle: K_t is down and more than 500 ms have passed since
\* the last toggle (the wall clock is outside the model).
KeyRecord(up, down, left, right, q, e, toggle) ==
    [up |-> up, down |-> down, left |-> left, right |-> right,
     q |-> q, e |-> e, toggle |-> toggle]

NoKeys == KeyRecord(FALSE, FALSE, FALSE, FALSE, FALSE, FALSE, FALSE)

(***************************************************************************)
(* Car: transmission                                                       *)
(***************************************************************************)

\* shift_up that shifts although a shift is in progress.
shift_up_NoGate(v) ==
    IF v.current_gear < 6
    THEN [v EXCEPT !.is_shifting = TRUE, !.shift_timer = shift_duration,
                   !.current_gear = v.current_gear + 1]
    ELSE v

\* Car.shift_up
shift_up(v) ==
    IF v.current_gear < 6 /\ ~v.is_shifting
    THEN [v EXCEPT !.is_shifting = TRUE, !.shift_timer = shift_duration,
                   !.current_gear = v.current_gear + 1]
    ELSE v

\* Car.shift_down
shift_down(v) ==
    IF v.current_gear > 1 /\ ~v.is_shifting
    THEN [v EXCEPT !.is_shifting = TRUE, !.shift_timer = shift_duration,
                   !.current_gear = v.current_gear - 1]
    ELSE v

\* update_gear_shifting that ends the shift one call early.
update_gear_shifting_Early(v, dt) ==
    IF v.is_shifting
    THEN LET t == v.shift_timer - dt IN
         IF t <= dt THEN [v EXCEPT !.is_shifting = FALSE, !.shift_timer = 0]
         ELSE [v EXCEPT !.shift_timer = t]
    ELSE v

\* Car.update_gear_shifting(dt)
update_gear_shifting(v, dt) ==
    IF v.is_shifting
    THEN LET t == v.shift_timer - dt IN
         IF t <= 0 THEN [v EXCEPT !.is_shifting = FALSE, !.shift_timer = 0]
         ELSE [v EXCEPT !.shift_timer = t]
    ELSE v

\* Car.update_rpm and Motorcycle.update_rpm; the rpm is kept as a whole number.
update_rpm(v) ==
    IF Abs(v.speed) < 1000
    THEN [v EXCEPT !.rpm = idle_rpm(v.kind)]
    ELSE LET limit == GearSpeedLimit(v.kind, v.current_gear)
             span == (max_rpm(v.kind) - idle_rpm(v.kind)) \div 100
             rpm == idle_rpm(v.kind) + (span * Abs(v.speed)) \div (limit \div 100)
         IN [v EXCEPT !.rpm = Min(rpm, max_rpm(v.kind))]

\* current_speed_kmh >= n and <= n, for current_speed_kmh = abs(speed) * 200.
KmhAtLeast(v, n) == Abs(v.speed) * 200 >= n * 1000000
KmhAtMost(v, n) == Abs(v.speed) * 200 <= n * 1000000

\* auto_shift whose 2nd-gear downshift threshold is the 1st-gear upshift
\* threshold (no hysteresis between gears 1 and 2).
auto_shift_NoHysteresis(v) ==
    LET g == v.current_gear IN
    IF g = 1 /\ KmhAtLeast(v, 25) THEN shift_up(v)
    ELSE IF g = 2 /\ KmhAtLeast(v, 45) THEN shift_up(v)
    ELSE IF g = 3 /\ KmhAtLeast(v, 70) THEN shift_up(v)
    ELSE IF g = 4 /\ KmhAtLeast(v, 95) THEN shift_up(v)
    ELSE IF g = 5 /\ KmhAtLeast(v, 120) THEN shift_up(v)
    ELSE IF g = 6 /\ KmhAtMost(v, 100) THEN shift_down(v)
    ELSE IF g = 5 /\ KmhAtMost(v, 75) THEN shift_down(v)
    ELSE IF g = 4 /\ KmhAtMost(v, 55) THEN shift_down(v)
    ELSE IF g = 3 /\ KmhAtMost(v, 35) THEN shift_down(v)
    ELSE IF g = 2 /\ KmhAtMost(v, 25) THEN shift_down(v)
    ELSE v

\* auto_shift whose 1st-gear upshift threshold (30 km/h) lies above the
\* 1st-gear speed ceiling.
auto_shift_HighFirstThreshold(v) ==
    LET g == v.current_gear IN
    IF g = 1 /\ KmhAtLeast(v, 30) THEN shift_up(v)
    ELSE IF g = 2 /\ KmhAtLeast(v, 45) THEN shift_up(v)
    ELSE IF g = 3 /\ KmhAtLeast(v, 70) THEN shift_up(v)
    ELSE IF g = 4 /\ KmhAtLeast(v, 95) THEN shift_up(v)
    ELSE IF g = 5 /\ KmhAtLeast(v, 120) THEN shift_up(v)
    ELSE IF g = 6 /\ KmhAtMost(v, 100) THEN shift_down(v)
    ELSE IF g = 5 /\ KmhAtMost(v, 75) THEN shift_down(v)
    ELSE IF g = 4 /\ KmhAtMost(v, 55) THEN shift_down(v)
    ELSE IF g = 3 /\ KmhAtMost(v, 35) THEN shift_down(v)
    ELSE IF g = 2 /\ KmhAtMost(v, 20) THEN shift_down(v)
    ELSE v

\* Car.auto_shift
auto_shift(v) ==
    LET g == v.current_gear IN
    IF g = 1 /\ KmhAtLeast(v, 25) THEN shift_up(v)
    ELSE IF g = 2 /\ KmhAtLeast(v, 45) THEN shift_up(v)
    ELSE IF g = 3 /\ KmhAtLeast(v, 70) THEN shift_up(v)
    ELSE IF g = 4 /\ KmhAtLeast(v, 95) THEN shift_up(v)
    ELSE IF g = 5 /\ KmhAtLeast(v, 120) THEN shift_up(v)
    ELSE IF g = 6 /\ KmhAtMost(v, 100) THEN shift_down(v)
    ELSE IF g = 5 /\ KmhAtMost(v, 75) THEN shift_down(v)
    ELSE IF g = 4 /\ KmhAtMost(v, 55) THEN shift_down(v)
    ELSE IF g = 3 /\ KmhAtMost(v, 35) THEN shift_down(v)
    ELSE IF g = 2 /\ KmhAtMost(v, 20) THEN shift_down(v)
    ELSE v

(***************************************************************************)
(* Motorcycle: transmission                                                *)
(***************************************************************************)

\* Motorcycle.shift_up
Motorcycle_shift_up(v) ==
    IF v.current_gear < 5 THEN [v EXCEPT !.current_gear = v.current_gear + 1] ELSE v

\* Motorcycle.shift_down
Motorcycle_shift_down(v) ==
    IF v.current_gear > 1 THEN [v EXCEPT !.current_gear = v.current_gear - 1] ELSE v

\* Motorcycle.auto_shift
Motorcycle_auto_shift(v) ==
    IF v.rpm >= shift_up_rpm /\ v.current_gear < 5 THEN Motorcycle_shift_up(v)
    ELSE IF v.rpm <= shift_down_rpm /\ v.current_gear > 1 /\ Abs(v.speed) > 50000
         THEN Motorcycle_shift_down(v)
    ELSE v

(***************************************************************************)
(* Car.update                                                              *)
(***************************************************************************)

\* base_acceleration * gear_ratios[current_gear]
GearAcceleration(v) ==
    (base_acceleration(v.kind) * gear_ratios(v.kind, v.current_gear)) \div 10

\* The K_UP branch of Car.update.
CarAccelerate(v) ==
    LET acceleration == IF v.is_shifting
                        THEN GearAcceleration(v) \div shift_speed_reduction
                        ELSE GearAcceleration(v)
        gear_speed_limit == GearSpeedLimit(v.kind, v.current_gear)
    IN IF v.speed < gear_speed_limit
       THEN [v EXCEPT !.speed = Min(v.speed + acceleration, gear_speed_limit)]
       ELSE v

\* The K_DOWN branch of Car.update: base_acceleration * 3.5, floor -max_speed/3.
CarBrake(v) ==
    [v EXCEPT !.braking = TRUE,
              !.speed = Max(v.speed - (base_acceleration(v.kind) * 35) \div 10,
                            -(max_speed(v.kind) \div 3))]

\* Manual gear shifting of Car.update (K_q, K_e), when auto transmission is off.
CarManualShift(v, k) ==
    IF v.auto_transmission THEN v
    ELSE LET v1 == IF k.q /\ v.current_gear > 1 THEN shift_down(v) ELSE v
         IN IF k.e /\ v1.current_gear < 6 THEN shift_up(v1) ELSE v1

\* The auto-transmission toggle (K_t) of Car.update and Motorcycle.update.  The
\* 500 ms debounce compares pygame's clock, which the loop does not control:
\* a snapshot with the toggle set stands for a press the debounce lets through.
ToggleTransmission(v, k) ==
    IF k.toggle THEN [v EXCEPT !.auto_transmission = ~v.auto_transmission] ELSE v

\* turn_speed * turn_factor, turn_factor = max(0.3, abs(speed) / max_speed).
CarTurnAmount(v) ==
    Max((3 * turn_speed(v.kind)) \div 10,
        ((turn_speed(v.kind) \div 100) * Abs(v.speed)) \div (max_speed(v.kind) \div 100))

\* Turning of Car.update: the turn flags, the heading and the steering angle.
CarTurn(v, k) ==
    LET tl == k.left /\ Abs(v.speed) > TurnThreshold
        tr == k.right /\ Abs(v.speed) > TurnThreshold
        w == [v EXCEPT !.turning_left = tl, !.turning_right = tr]
        m == max_steering_angle(v.kind)
    IN IF tl
       THEN [w EXCEPT !.angle = IF v.speed >= 0 THEN v.angle + CarTurnAmount(v)
                                                ELSE v.angle - CarTurnAmount(v),
                      !.steering_angle = Min(v.steering_angle + 5000, m)]
       ELSE IF tr
       THEN [w EXCEPT !.angle = IF v.speed >= 0 THEN v.angle - CarTurnAmount(v)
                                                ELSE v.angle + CarTurnAmount(v),
                      !.steering_angle = Max(v.steering_angle - 5000, -m)]
       ELSE IF v.steering_angle > 0
       THEN [w EXCEPT !.steering_angle = Max(v.steering_angle - 3000, 0)]
       ELSE IF v.steering_angle < 0
       THEN [w EXCEPT !.steering_angle = Min(v.steering_angle + 3000, 0)]
       ELSE w

\* Friction of Car.update and Motorcycle.update: speed *= friction when neither
\* accelerating nor braking.
ApplyFriction(v, k) ==
    IF ~k.up /\ ~v.braking
    THEN [v EXCEPT !.speed = Trunc(v.speed * friction(v.kind), 100)]
    ELSE v

\* The position update of Car.update and Motorcycle.update, with the 0.7
\* speed multiplier while turning.
Move(v) ==
    LET effective_speed == IF v.turning_left \/ v.turning_right
                           THEN Trunc(v.speed * 7, 10) ELSE v.speed
    IN [v EXCEPT !.x = v.x + Trunc(Sin(v.angle) * effective_speed, 1000),
                 !.z = v.z + Trunc(Cos(v.angle) * effective_speed, 1000)]

\* Car.update up to and including update_rpm: prev_x and prev_z stored, keys
\* handled, rpm computed.
CarBeforeCountdown(v, k) ==
    LET v0 == [v EXCEPT !.prev_x = v.x, !.prev_z = v.z, !.braking = FALSE]
        v1 == IF k.up THEN CarAccelerate(v0) ELSE v0
        v2 == IF k.down THEN CarBrake(v1) ELSE v1
        v3 == CarManualShift(v2, k)
        v4 == ToggleTransmission(v3, k)
        v5 == CarTurn(v4, k)
    IN update_rpm(v5)

\* ... then update_gear_shifting(1.0/60.0)
CarAfterCountdown(v, k) == update_gear_shifting(CarBeforeCountdown(v, k), FrameDt)

\* ... then auto_shift when the transmission is automatic
CarAfterAutoShift(v, k) ==
    LET w == CarAfterCountdown(v, k) IN
    IF w.auto_transmission THEN auto_shift(w) ELSE w

\* Car.update(keys)
CarUpdate(v, k) == Move(ApplyFriction(CarAfterAutoShift(v, k), k))

(***************************************************************************)
(* Motorcycle.update                                                       *)
(***************************************************************************)

\* The K_UP branch of Motorcycle.update.
MotorcycleAccelerate(v) ==
    LET gear_speed_limit == GearSpeedLimit(v.kind, v.current_gear) IN
    IF v.speed < gear_speed_limit
    THEN [v EXCEPT !.speed = Min(v.speed + GearAcceleration(v), gear_speed_limit)]
    ELSE v

\* The K_DOWN branch of Motorcycle.update without the reverse floor.
MotorcycleBrake_NoFloor(v) ==
    [v EXCEPT !.braking = TRUE, !.speed = v.speed - base_acceleration(v.kind) * 4]

\* The K_DOWN branch of Motorcycle.update: base_acceleration * 4.0, floor -max_speed/4.
MotorcycleBrake(v) ==
    [v EXCEPT !.braking = TRUE,
              !.speed = Max(v.speed - base_acceleration(v.kind) * 4,
                            -(max_speed(v.kind) \div 4))]

\* Manual gear shifting of Motorcycle.update.
MotorcycleManualShift(v, k) ==
    IF v.auto_transmission THEN v
    ELSE LET v1 == IF k.q /\ v.current_gear > 1 THEN Motorcycle_shift_down(v) ELSE v
         IN IF k.e /\ v1.current_gear < 5 THEN Motorcycle_shift_up(v1) ELSE v1

\* Turning of Motorcycle.update: angle +- turn_speed * (speed / max_speed).
MotorcycleTurn(v, k) ==
    LET tl == k.left /\ Abs(v.speed) > TurnThreshold
        tr == k.right /\ Abs(v.speed) > TurnThreshold
        w == [v EXCEPT !.turning_left = tl, !.turning_right = tr]
        m == max_steering_angle(v.kind)
        amount == Trunc((turn_speed(v.kind) \div 100) * v.speed, max_speed(v.kind) \div 100)
    IN IF tl
       THEN [w EXCEPT !.angle = v.angle + amount,
                      !.steering_angle = Min(v.steering_angle + 6000, m)]
       ELSE IF tr
       THEN [w EXCEPT !.angle = v.angle - amount,
                      !.steering_angle = Max(v.steering_angle - 6000, -m)]
       ELSE IF v.steering_angle > 0
       THEN [w EXCEPT !.steering_angle = Max(v.steering_angle - 4000, 0)]
       ELSE IF v.steering_angle < 0
       THEN [w EXCEPT !.steering_angle = Min(v.steering_angle + 4000, 0)]
       ELSE w

\* Motorcycle.update(keys)
MotorcycleUpdate(v, k) ==
    LET v0 == [v EXCEPT !.prev_x = v.x, !.prev_z = v.z, !.braking = FALSE]
        v1 == IF k.up THEN MotorcycleAccelerate(v0) ELSE v0
        v2 == IF k.down THEN MotorcycleBrake(v1) ELSE v1
        v3 == MotorcycleManualShift(v2, k)
        v4 == ToggleTransmission(v3, k)
        v5 == MotorcycleTurn(v4, k)
        v6 == update_rpm(v5)
        v7 == IF v6.auto_transmission THEN Motorcycle_auto_shift(v6) ELSE v6
    IN Move(ApplyFriction(v7, k))

\* self.vehicle.update(keys, ...) of Game.run
VehicleUpdate(v, k) ==
    IF v.kind = "car" THEN CarUpdate(v, k) ELSE MotorcycleUpdate(v, k)

(***************************************************************************)
(* Collision with buildings                                                *)
(***************************************************************************)

\* car_size 0.6 of Car.check_building_collision, motorcycle_size 0.3 of
\* Motorcycle.check_building_collision.
CollisionSize(kind) == IF kind = "car" THEN 600000 ELSE 300000

\* The overlap test of check_building_collision for one building.
Overlaps(v, b) ==
    LET size == CollisionSize(v.kind) IN
    /\ v.x + size > b.x - b.width \div 2
    /\ v.x - size < b.x + b.width \div 2
    /\ v.z + size > b.z - b.depth \div 2
    /\ v.z - size < b.z + b.depth \div 2

\* check_building_collision without the test of building.destroyed.
check_building_collision_All(v, bs) ==
    \E i \in DOMAIN bs : Overlaps(v, bs[i])

\* Car.check_building_collision and Motorcycle.check_building_collision
check_building_collision(v, bs) ==
    \E i \in DOMAIN bs : ~bs[i].destroyed /\ Overlaps(v, bs[i])

\* resolve_collision that stops the vehicle where it is.
resolve_collision_NoRollback(v, prev_x, prev_z) == [v EXCEPT !.speed = 0]

\* resolve_collision that restores the position and keeps the speed.
resolve_collision_KeepSpeed(v, prev_x, prev_z) == [v EXCEPT !.x = prev_x, !.z = prev_z]

\* Car.resolve_collision and Motorcycle.resolve_collision
resolve_collision(v, prev_x, prev_z) ==
    [v EXCEPT !.x = prev_x, !.z = prev_z, !.speed = 0]

\* Building(x, 0, z, width, height, depth)
Building(x, z, width, depth) ==
    [x |-> x, z |-> z, width |-> width, depth |-> depth, destroyed |-> FALSE]

(***************************************************************************)
(* Game: reset_game and one iteration of the loop of Game.run              *)
(***************************************************************************)

\* Game.reset_game
reset_game(v) ==
    [v EXCEPT !.x = 10000000, !.z = 0, !.angle = 270000, !.speed = 0,
              !.steering_angle = 0, !.current_gear = 1, !.rpm = idle_rpm(v.kind)]

\* update_gear_shifting calls since the last shift of the car began, after a
\* tick with keys k: a shift begun by K_q / K_e is counted down in the same
\* tick, one begun by auto_shift is not.
NextShiftElapsed(v, k) ==
    IF v.kind # "car" THEN shift_elapsed
    ELSE LET counted == CarBeforeCountdown(v, k).is_shifting
             ended == ~CarAfterCountdown(v, k).is_shifting
             auto == CarAfterAutoShift(v, k).is_shifting /\ ended
         IN IF auto THEN 0
            ELSE IF ~counted THEN shift_elapsed
            ELSE IF ~v.is_shifting THEN 1
            ELSE shift_elapsed + 1

\* One iteration of the loop of Game.run once a vehicle is selected:
\* vehicle.update(keys), the building collision check and resolve_collision,
\* then update_traffic_lights(dt) of every track.
GameTick(k, dt) ==
    LET u == VehicleUpdate(vehicle, k)
        hit == check_building_collision(u, buildings)
    IN /\ vehicle' = IF hit THEN resolve_collision(u, u.prev_x, u.prev_z) ELSE u
       /\ collided' = hit
       /\ keys' = k
       /\ tick' = tick + 1
       /\ shift_elapsed' = NextShiftElapsed(vehicle, k)
       /\ TrackUpdate(dt)
       /\ UNCHANGED <<buildings, harnessVars, npcVars, loadVars>>

\* The K_r event of Game.handle_events: reset_game.
ResetGame ==
    /\ vehicle' = reset_game(vehicle)
    /\ UNCHANGED <<buildings, keys, collided, tick, shift_elapsed>>
    /\ UNCHANGED <<lightVars, harnessVars, npcVars, loadVars>>

(***************************************************************************)
(* NPCCar                                                                  *)
(***************************************************************************)

Directions == {"north", "south", "east", "west"}

\* stop_distance of NPCCar.__init__ (4.0), collision_distance of
\* check_car_collision (3.5), lane_tolerance of are_cars_in_same_lane (1.5),
\* the queue distance of calculate_acceleration_delay (8.0).
stop_distance == 4000
collision_distance == 3500
lane_tolerance == 1500
QueueDistance == 8000

\* The world bound of update_ai (60) and the maximum delay (3.0 s).
WorldBound == 60000
MaxDelay == 18000

\* NPCCar.get_lane_offset: <<x offset, z offset>> of the lane centre.
get_lane_offset(direction) ==
    CASE direction = "east" -> <<0, -1000>>
      [] direction = "west" -> <<0, 1000>>
      [] direction = "north" -> <<-1000, 0>>
      [] direction = "south" -> <<1000, 0>>
      [] OTHER -> <<0, 0>>

\* NPCCar.__init__(x, z, direction, speed)
NPCCar(x, z, direction, speed) ==
    [ x |-> x, z |-> z, direction |-> direction,
      target_speed |-> speed, speed |-> speed,
      stopped_for_light |-> FALSE,
      angle |-> CASE direction = "north" -> 0
                  [] direction = "south" -> 180000
                  [] direction = "east" -> 270000
                  [] direction = "west" -> 90000
                  [] OTHER -> 270000,
      acceleration_delay |-> 0,
      is_waiting_to_accelerate |-> FALSE ]

\* math.sqrt(dx**2 + dz**2) < d, for d at most QueueDistance.
DistanceLess(dx, dz, d) ==
    /\ Abs(dx) < d
    /\ Abs(dz) < d
    /\ dx * dx + dz * dz < d * d

\* The mapping the "FIXED" comment of check_traffic_light replaced.
LightControls_Swapped(n, light) ==
    \/ n.direction \in {"east", "west"} /\ light.direction = "horizontal"
    \/ n.direction \in {"north", "south"} /\ light.direction = "vertical"

\* The light is one that check_traffic_light lets control the car.
LightControls(n, light) ==
    \/ n.direction \in {"east", "west"} /\ light.direction = "vertical"
    \/ n.direction \in {"north", "south"} /\ light.direction = "horizontal"

\* NPCCar.check_traffic_light(traffic_lights)
check_traffic_light(n, lights) ==
    \E i \in DOMAIN lights :
        /\ LightControls(n, lights[i])
        /\ DistanceLess(n.x, n.z, stop_distance)
        /\ lights[i].state \in {"red", "yellow", "red-yellow"}

\* NPCCar.are_cars_in_same_lane(other_car)
are_cars_in_same_lane(n, other) ==
    IF n.direction \in {"east", "west"}
    THEN Abs(n.z - other.z) < lane_tolerance
    ELSE Abs(n.x - other.x) < lane_tolerance

\* NPCCar.is_car_in_front(other_car)
is_car_in_front(n, other) ==
    CASE n.direction = "east" -> other.x - n.x > 0
      [] n.direction = "west" -> other.x - n.x < 0
      [] n.direction = "north" -> other.z - n.z > 0
      [] n.direction = "south" -> other.z - n.z < 0
      [] OTHER -> FALSE

\* NPCCar.check_car_collision(other_cars)
check_car_collision(n, other_cars) ==
    \E i \in DOMAIN other_cars :
        LET o == other_cars[i] IN
        /\ n.direction = o.direction
        /\ are_cars_in_same_lane(n, o)
        /\ DistanceLess(n.x - o.x, n.z - o.z, collision_distance)
        /\ is_car_in_front(n, o)
        /\ o.speed * 10 < n.speed * 9

\* cars_in_front counting the cars on the other side of the car.
CarsInFront_Behind(n, other_cars) ==
    Cardinality({i \in DOMAIN other_cars :
        /\ n.direction = other_cars[i].direction
        /\ are_cars_in_same_lane(n, other_cars[i])
        /\ is_car_in_front(other_cars[i], n)
        /\ DistanceLess(n.x - other_cars[i].x, n.z - other_cars[i].z, QueueDistance)})

\* cars_in_front of calculate_acceleration_delay
CarsInFront(n, other_cars) ==
    Cardinality({i \in DOMAIN other_cars :
        /\ n.direction = other_cars[i].direction
        /\ are_cars_in_same_lane(n, other_cars[i])
        /\ is_car_in_front(n, other_cars[i])
        /\ DistanceLess(n.x - other_cars[i].x, n.z - other_cars[i].z, QueueDistance)})

\* The values random.uniform draws in calculate_acceleration_delay: the base
\* delay in [0.3, 0.7] s, the delay per car in front in [0.4, 0.8] s, the
\* random factor in [0.8, 1.2] (in percent); each at its ends and its middle.
BaseDelays == {1800, 3000, 4200}
QueueDelays == {2400, 3600, 4800}
RandomFactors == {80, 100, 120}

\* The draws of one call: <<base_delay, delay per car, random_factor>>.
DelayDraws == BaseDelays \X QueueDelays \X RandomFactors

\* NPCCar.calculate_acceleration_delay(other_cars), for the draws it makes.
calculate_acceleration_delay(n, other_cars, draw) ==
    LET queue_delay == CarsInFront(n, other_cars) * draw[2]
        total_delay == ((draw[1] + queue_delay) * draw[3]) \div 100
    IN Min(total_delay, MaxDelay)

\* 1000 * math.sin and 1000 * math.cos of an angle in 1e-3 degree, between
\* whole degrees by linear interpolation (the NPC's lane correction turns it
\* by hundredths of a degree).
SinFine(angle) ==
    LET d == angle \div 1000
        f == angle % 1000
    IN (SinDeg(d % 360) * (1000 - f) + SinDeg((d + 1) % 360) * f) \div 1000
CosFine(angle) == SinFine(angle + 90000)

\* should_stop of update_ai
should_stop(n, lights, other_cars) ==
    check_traffic_light(n, lights) \/ check_car_collision(n, other_cars)

\* update_ai calls calculate_acceleration_delay: the stop condition has
\* cleared for a car flagged stopped that is not yet waiting and stands still.
StartsWaiting(n, lights, other_cars) ==
    /\ ~should_stop(n, lights, other_cars)
    /\ n.stopped_for_light
    /\ ~n.is_waiting_to_accelerate
    /\ n.speed <= 50

\* update_ai, lines 1726-1746: slowing down, or the start of the delay.
AiStopOrRelease(n, lights, other_cars, draw) ==
    LET stop == should_stop(n, lights, other_cars) IN
    IF stop /\ ~n.stopped_for_light
    THEN LET sp == Max(0, n.speed - 15) IN
         IF sp <= 10
         THEN [n EXCEPT !.speed = 0, !.stopped_for_light = TRUE,
                        !.acceleration_delay = 0, !.is_waiting_to_accelerate = FALSE]
         ELSE [n EXCEPT !.speed = sp]
    ELSE IF ~stop /\ n.stopped_for_light
    THEN IF ~n.is_waiting_to_accelerate
         THEN IF n.speed <= 50
              THEN [n EXCEPT !.is_waiting_to_accelerate = TRUE,
                             !.acceleration_delay =
                                 calculate_acceleration_delay(n, other_cars, draw)]
              ELSE [n EXCEPT !.stopped_for_light = FALSE]
         ELSE n
    ELSE n

\* update_ai, lines 1748-1754: the countdown of the delay, 1/60 s per call.
AiCountdown(n) ==
    IF n.is_waiting_to_accelerate
    THEN LET d == n.acceleration_delay - 100 IN
         IF d <= 0
         THEN [n EXCEPT !.acceleration_delay = d, !.stopped_for_light = FALSE,
                        !.is_waiting_to_accelerate = FALSE]
         ELSE [n EXCEPT !.acceleration_delay = d]
    ELSE n

\* The acceleration without the test of is_waiting_to_accelerate.
AiAccelerate_NoWait(n, stop) ==
    IF ~stop /\ n.speed < n.target_speed
    THEN [n EXCEPT !.speed = Min(n.target_speed, n.speed + 8)]
    ELSE n

\* update_ai, lines 1756-1758: acceleration back to target_speed.
AiAccelerate(n, stop) ==
    IF ~stop /\ ~n.is_waiting_to_accelerate /\ n.speed < n.target_speed
    THEN [n EXCEPT !.speed = Min(n.target_speed, n.speed + 8)]
    ELSE n

\* z_error / x_error of update_ai for the coordinate across the lane.
LaneError(target, position) ==
    LET e == target - (position % 60000) IN
    IF Abs(e) > 30000 THEN (IF e > 0 THEN e - 60000 ELSE e + 60000) ELSE e

\* update_ai, lines 1760-1783: the lane correction of the heading
\* (lane_correction_strength 0.02 degree per world unit).
AiLaneCorrection(n) ==
    LET offset == get_lane_offset(n.direction)
        e == IF n.direction \in {"east", "west"}
             THEN LaneError(offset[2], n.z) ELSE LaneError(offset[1], n.x)
    IN IF Abs(e) > 100 THEN [n EXCEPT !.angle = n.angle + Trunc(e, 50)] ELSE n

\* update_ai, lines 1785-1787: the position update.
AiMove(n) ==
    [n EXCEPT !.x = n.x + Trunc(SinFine(n.angle) * n.speed, 1000),
              !.z = n.z + Trunc(CosFine(n.angle) * n.speed, 1000)]

\* The car after NPCCar.update_ai(traffic_lights, is_day_time, other_cars),
\* for the draws its call of calculate_acceleration_delay makes.
update_ai(n, lights, other_cars, draw) ==
    LET stop == should_stop(n, lights, other_cars)
        a == AiStopOrRelease(n, lights, other_cars, draw)
    IN AiMove(AiLaneCorrection(AiAccelerate(AiCountdown(a), stop)))

\* update_ai_result with the world bound taken as reached at 60 itself.
update_ai_result_Inclusive(after) == ~(Abs(after.x) >= WorldBound \/ Abs(after.z) >= WorldBound)

\* What update_ai returns for the car it leaves behind: False when the car
\* is beyond the world bound.
update_ai_result(after) == ~(Abs(after.x) > WorldBound \/ Abs(after.z) > WorldBound)

\* The draws that matter to a call of update_ai.
DrawsOf(n, lights, other_cars) ==
    IF StartsWaiting(n, lights, other_cars) THEN DelayDraws
    ELSE {<<1800, 2400, 100>>}

(***************************************************************************)
(* Game.update_npc_cars                                                    *)
(***************************************************************************)

\* npc_spawn_interval (3.0 s) and max_npc_cars of Game.__init__
npc_spawn_interval == 180
max_npc_cars == 8

\* spawn_options of Game.spawn_npc_car, with both outcomes of each
\* random.choice([2, -2]).
SpawnOptions ==
    { <<30000, 2000, "west">>, <<30000, -2000, "west">>,
      <<-30000, 2000, "east">>, <<-30000, -2000, "east">>,
      <<2000, 30000, "south">>, <<-2000, 30000, "south">>,
      <<2000, -30000, "north">>, <<-2000, -30000, "north">> }

\* speed = random.uniform(0.15, 0.35): its ends and its middle.
SpawnSpeeds == {150, 250, 350}

\* The lists Game.spawn_npc_car can leave in npc_cars.
spawn_npc_car(cars) ==
    IF Len(cars) >= max_npc_cars THEN {cars}
    ELSE {Append(cars, NPCCar(o[1], o[2], o[3], speed)) : o \in SpawnOptions, speed \in SpawnSpeeds}

\* update_npc_cars, lines 839-843: the spawn timer and the spawn.
SpawnDue(timer, dt) == timer + dt >= npc_spawn_interval
NextSpawnTimer(timer, dt) == IF SpawnDue(timer, dt) THEN 0 ELSE timer + dt
AfterSpawn(cars, timer, dt) == IF SpawnDue(timer, dt) THEN spawn_npc_car(cars) ELSE {cars}

\* update_npc_cars, lines 850-854: every car's update_ai(all_traffic_lights),
\* called without other_cars; the lists the calls can leave.
RECURSIVE UpdatedCars(_, _)
UpdatedCars(cars, lights) ==
    IF cars = << >> THEN { << >> }
    ELSE { <<h>> \o t :
             h \in { update_ai(Head(cars), lights, << >>, d) : d \in DrawsOf(Head(cars), lights, << >>) },
             t \in UpdatedCars(Tail(cars), lights) }

\* update_npc_cars, lines 851-858: the cars whose update_ai returned False
\* are deleted, from the last index to the first.
RemoveOffScreen(updated) == SelectSeq(updated, update_ai_result)

\* The pairs <<cars after update_ai, npc_cars>> Game.update_npc_cars(dt) can leave.
update_npc_cars(cars, timer, dt, lights) ==
    { <<u, RemoveOffScreen(u)>> :
        u \in UNION { UpdatedCars(spawned, lights) : spawned \in AfterSpawn(cars, timer, dt) } }

\* The traffic-light update of Game.run followed by update_npc_cars(dt), the
\* call that Game.run has commented out.
NpcFrame(dt) ==
    /\ TrackUpdate(dt)
    /\ \E out \in update_npc_cars(npc_cars, npc_spawn_timer, dt, traffic_lights') :
          /\ npc_updated' = out[1]
          /\ returned' = [i \in DOMAIN out[1] |-> update_ai_result(out[1][i])]
          /\ npc_cars' = out[2]
    /\ npc_spawn_timer' = NextSpawnTimer(npc_spawn_timer, dt)
    /\ tick' = tick + 1

\* The same frame in two runs that are in the same state and get the same dt.
TwinFrame(dt) ==
    /\ NpcFrame(dt)
    /\ \E out \in update_npc_cars(twin_cars, npc_spawn_timer, dt, traffic_lights') :
          twin_cars' = out[2]
    /\ UNCHANGED <<vehicle, buildings, keys, collided, shift_elapsed, harnessVars, loadVars>>

\* One frame of the traffic of a single run.
TrafficFrame(dt) ==
    /\ NpcFrame(dt)
    /\ UNCHANGED <<vehicle, buildings, keys, collided, shift_elapsed, harnessVars, twin_cars, loadVars>>

(***************************************************************************)
(* Track.create_buildings                                                  *)
(***************************************************************************)

\* The quadrants of Track.create_buildings, <<min_x, max_x, min_z, max_z>>,
\* in the order of its calls of _place_buildings_in_quadrant.
Quadrants ==
    << <<8000000, 25000000, 8000000, 25000000>>,
       <<-25000000, -8000000, 8000000, 25000000>>,
       <<8000000, 25000000, -25000000, -8000000>>,
       <<-25000000, -8000000, -25000000, -8000000>> >>

\* count of every call of _place_buildings_in_quadrant, and min_spacing.
BuildingsPerQuadrant == 3
min_spacing == 1500000

\* The positions of the first Tracks of Game.__init__: the centre track and
\* the one above it, arm_length * 2 = 60 further in z.
TrackPositions == << <<0, 0>>, <<0, 60000000>> >>

\* The values an attempt draws, <<width, depth, x - min_x, z - min_z>> with
\* x - min_x in [width/2, 17 - width/2] and z - min_z in [depth/2, 17 -
\* depth/2]: a 6 x 6 building in the low corner of the quadrant, a 2 x 6
\* building whose left face is exactly min_spacing from the first one's right
\* face, the same 1e-6 further, and a 6 x 6 building in the high corner.  The
\* first quadrant draws from all four, the second from two, the others from one.
LowCorner == <<6000000, 6000000, 3000000, 3000000>>
AtSpacing == <<2000000, 6000000, 8500000, 3000000>>
PastSpacing == <<2000000, 6000000, 8500001, 3000000>>
HighCorner == <<6000000, 6000000, 14000000, 14000000>>
AttemptDraws(quadrant) ==
    CASE quadrant = 1 -> {LowCorner, AtSpacing, PastSpacing, HighCorner}
      [] quadrant = 2 -> {LowCorner, HighCorner}
      [] OTHER -> {LowCorner}

\* The building an attempt proposes in the quadrant of the track at pos.
Proposed(pos, quadrant, draw) ==
    Building(Quadrants[quadrant][1] + draw[3] + pos[1],
             Quadrants[quadrant][3] + draw[4] + pos[2], draw[1], draw[2])

\* _is_position_valid that accepts every position.
_is_position_valid_Always(bs, x, z, width, depth, spacing) == TRUE

\* _is_position_valid that rejects every position.
_is_position_valid_Never(bs, x, z, width, depth, spacing) == FALSE

\* Track._is_position_valid(x, z, width, depth, min_spacing), bs being
\* self.buildings.
_is_position_valid(bs, x, z, width, depth, spacing) ==
    \A i \in DOMAIN bs :
        LET new_left == x - width \div 2
            new_right == x + width \div 2
            new_front == z - depth \div 2
            new_back == z + depth \div 2
            existing_left == bs[i].x - bs[i].width \div 2 - spacing
            existing_right == bs[i].x + bs[i].width \div 2 + spacing
            existing_front == bs[i].z - bs[i].depth \div 2 - spacing
            existing_back == bs[i].z + bs[i].depth \div 2 + spacing
        IN \/ new_right < existing_left
           \/ new_left > existing_right
           \/ new_back < existing_front
           \/ new_front > existing_back

\* The attempt proposing b passes _is_position_valid.
ValidAttempt(bs, b) == _is_position_valid(bs, b.x, b.z, b.width, b.depth, min_spacing)

\* self.buildings after the attempts for one building of
\* _place_buildings_in_quadrant: the first valid attempt appends its building;
\* when all 50 attempts are invalid the building is skipped, which some
\* sequence of draws brings about exactly when some draw is invalid.
AfterAttempts(pos, bs, quadrant) ==
    LET proposed == { Proposed(pos, quadrant, d) : d \in AttemptDraws(quadrant) } IN
    { Append(bs, b) : b \in { c \in proposed : ValidAttempt(bs, c) } }
       \cup (IF \E c \in proposed : ~ValidAttempt(bs, c) THEN {bs} ELSE {})

\* No Track is under construction.
NoSite == [pos |-> <<0, 0>>, buildings |-> << >>, quadrant |-> 0, i |-> 0]

\* Track.__init__(pos_x, pos_y) of the next track of Game.__init__, up to its
\* call of create_buildings.
StartTrack ==
    /\ site = NoSite
    /\ Len(tracks) < Len(TrackPositions)
    /\ site' = [pos |-> TrackPositions[Len(tracks) + 1], buildings |-> << >>,
                quadrant |-> 1, i |-> 1]
    /\ UNCHANGED <<tracks, loading, lightVars, gameVars, harnessVars, npcVars>>

\* One pass of the loop `for i in range(count)` of
\* _place_buildings_in_quadrant, with all its attempts.
PlaceBuilding ==
    /\ site.quadrant \in 1..Len(Quadrants)
    /\ \E bs \in AfterAttempts(site.pos, site.buildings, site.quadrant) :
          site' = [site EXCEPT
                     !.buildings = bs,
                     !.i = IF site.i = BuildingsPerQuadrant THEN 1 ELSE site.i + 1,
                     !.quadrant = IF site.i = BuildingsPerQuadrant
                                  THEN site.quadrant + 1 ELSE site.quadrant]
    /\ UNCHANGED <<tracks, loading, lightVars, gameVars, harnessVars, npcVars>>

\* create_buildings has returned: Game.__init__ appends the track to tracks.
TrackBuilt ==
    /\ site.quadrant > Len(Quadrants)
    /\ tracks' = Append(tracks, site.buildings)
    /\ site' = NoSite
    /\ UNCHANGED <<loading, lightVars, gameVars, harnessVars, npcVars>>

(***************************************************************************)
(* LoadingScreen                                                           *)
(***************************************************************************)

\* The tasks of LoadingScreen.stages, in list order.
stages ==
    << "load_graphics", "load_tracks", "load_buildings", "load_textures",
       "load_materials", "load_physics", "load_lighting", "load_ai" >>

\* progress is kept in tenths of a percent: the cap of update (99) and the
\* value of a finished load (100).
ProgressCap == 990
ProgressDone == 1000

\* stage_progress of update for the time elapsed since the stage started:
\* none, half of the stage's share, the whole share 100 / len(stages).
StageProgress == {0, 62, 1000 \div Len(stages)}

\* LoadingScreen.__init__.  calls counts the calls of update and ran lists
\* the tasks update has executed, with how each ended.
LoadingScreen ==
    [current_stage |-> 0, tasks_completed |-> << >>, progress |-> 0,
     calls |-> 0, ran |-> << >>]

\* No LoadingScreen has been constructed.
NoLoading ==
    [current_stage |-> -1, tasks_completed |-> << >>, progress |-> 0,
     calls |-> 0, ran |-> << >>]

\* update that leaves a stage whose task raised to be run again.
update_RetryOnError(l, raised, stage_progress) ==
    IF l.current_stage >= Len(stages)
    THEN [l EXCEPT !.progress = ProgressDone, !.calls = @ + 1]
    ELSE LET stage_name == stages[l.current_stage + 1]
             run == \A i \in DOMAIN l.tasks_completed : l.tasks_completed[i] # stage_name
             done == IF run /\ ~raised THEN Append(l.tasks_completed, stage_name)
                     ELSE l.tasks_completed
             base_progress == (Len(done) * 1000) \div Len(stages)
         IN [l EXCEPT
               !.tasks_completed = done,
               !.ran = IF run THEN Append(@, [task |-> stage_name, raised |-> raised]) ELSE @,
               !.progress = Min(base_progress + stage_progress, ProgressCap),
               !.current_stage = IF run /\ raised THEN @ ELSE @ + 1,
               !.calls = @ + 1]

\* LoadingScreen.update: the task of the current stage returns or raises;
\* stage_progress is what the clock makes it.
update(l, raised, stage_progress) ==
    IF l.current_stage >= Len(stages)
    THEN [l EXCEPT !.progress = ProgressDone, !.calls = @ + 1]
    ELSE LET stage_name == stages[l.current_stage + 1]
             run == \A i \in DOMAIN l.tasks_completed : l.tasks_completed[i] # stage_name
             done == IF run THEN Append(l.tasks_completed, stage_name)
                     ELSE l.tasks_completed
             base_progress == (Len(done) * 1000) \div Len(stages)
             after == [l EXCEPT
                         !.tasks_completed = done,
                         !.ran = IF run THEN Append(@, [task |-> stage_name, raised |-> raised])
                                 ELSE @,
                         !.progress = Min(base_progress + stage_progress, ProgressCap)]
         IN [after EXCEPT
               !.current_stage = IF \E i \in DOMAIN done : done[i] = stage_name
                                 THEN @ + 1 ELSE @,
               !.calls = @ + 1]

\* LoadingScreen.is_complete
is_complete(l) == l.progress >= ProgressDone

\* No Track is being constructed and no LoadingScreen exists.
NoLoad == tracks = << >> /\ site = NoSite /\ loading = NoLoading

NoNpc ==
    /\ npc_cars = << >>
    /\ npc_spawn_timer = 0
    /\ twin_cars = << >>
    /\ npc_updated = << >>
    /\ returned = << >>

NoHarness == op = "" /\ start_gear = 0 /\ gear_changes = 0 /\ gear_trace = << >>

(***************************************************************************)
(* The game in mid-session: the loop of Game.run from poses of a running   *)
(* session, under every key snapshot of KeySnapshots                       *)
(***************************************************************************)

\* Number of loop iterations followed from each initial state.
MaxTicks == 2

\* The buildings: one in the north-east quadrant of the centre track
\* (x, z in 8..12) and one in its north-west quadrant (x in -12..-9, z in 8..11),
\* both inside the bounds _place_buildings_in_quadrant keeps.
GameBuildings ==
    << Building(10000000, 10000000, 4000000, 4000000),
       Building(-10500000, 9500000, 3000000, 3000000) >>

\* Poses <<x, z, angle>>: the spawn pose, and two poses on the pavement just
\* south of a building (the collision box 0.01 clear of it), heading a little
\* west and a little east of north.
Poses(kind) ==
    LET z == 8000000 - CollisionSize(kind) - 10000 IN
    { <<10000000, 0, 270000>>, <<10000000, z, 358200>>, <<-10500000, z, 1500>> }

\* Speeds inside the clamps of each kind: rest, just above the turning
\* threshold, a shift threshold, cruising, just below top speed, just above
\* the reverse floor.
Speeds(kind) ==
    IF kind = "car"
    THEN {0, 12000, 125000, 500000, 899500, -299000}
    ELSE {0, 12000, 125000, 500000, 899500, -224000}

Gears(kind) == {1, 2, TopGear(kind)}

\* A vehicle of a running session.
SessionVehicle(kind, pose, speed, gear, auto) ==
    update_rpm([Construct(kind) EXCEPT
                    !.x = pose[1], !.z = pose[2], !.prev_x = pose[1], !.prev_z = pose[2],
                    !.angle = pose[3], !.speed = speed, !.current_gear = gear,
                    !.auto_transmission = auto])

KeySnapshots ==
    { NoKeys,
      KeyRecord(TRUE, FALSE, FALSE, FALSE, FALSE, FALSE, FALSE),
      KeyRecord(FALSE, TRUE, FALSE, FALSE, FALSE, FALSE, FALSE),
      KeyRecord(TRUE, TRUE, FALSE, FALSE, FALSE, FALSE, FALSE),
      KeyRecord(TRUE, FALSE, TRUE, FALSE, FALSE, FALSE, FALSE),
      KeyRecord(TRUE, FALSE, FALSE, TRUE, FALSE, FALSE, FALSE),
      KeyRecord(FALSE, FALSE, TRUE, FALSE, FALSE, FALSE, FALSE),
      KeyRecord(FALSE, FALSE, FALSE, TRUE, FALSE, FALSE, FALSE),
      KeyRecord(FALSE, TRUE, TRUE, FALSE, FALSE, FALSE, FALSE),
      KeyRecord(FALSE, FALSE, FALSE, FALSE, TRUE, FALSE, FALSE),
      KeyRecord(FALSE, FALSE, FALSE, FALSE, FALSE, TRUE, FALSE),
      KeyRecord(FALSE, FALSE, FALSE, FALSE, FALSE, FALSE, TRUE),
      KeyRecord(TRUE, FALSE, FALSE, FALSE, FALSE, TRUE, FALSE) }

\* The dt Game.run measures per iteration: clock.tick(60) holds it at 1/60 s.
LoopDts == {FrameDt}

InitGame ==
    /\ LightsAtConstruction
    /\ \E kind \in Kinds : \E pose \in Poses(kind) : \E speed \in Speeds(kind) :
       \E gear \in Gears(kind) : \E auto \in BOOLEAN :
           vehicle = SessionVehicle(kind, pose, speed, gear, auto)
    /\ buildings = GameBuildings
    /\ keys = NoKeys
    /\ collided = FALSE
    /\ tick = 0
    /\ shift_elapsed = -1
    /\ NoHarness
    /\ NoNpc
    /\ NoLoad

NextGame ==
    \/ \E k \in KeySnapshots : \E dt \in LoopDts : tick < MaxTicks /\ GameTick(k, dt)
    \/ ResetGame

SpecGame == InitGame /\ [][NextGame]_vars

(***************************************************************************)
(* A run from construction: the car at the spawn pose, accelerate held,    *)
(* with shift and transmission-toggle keys                                 *)
(***************************************************************************)

\* Number of loop iterations of a run.
MaxRunTicks == 48

RunKeys ==
    { KeyRecord(TRUE, FALSE, FALSE, FALSE, FALSE, FALSE, FALSE),
      KeyRecord(TRUE, FALSE, FALSE, FALSE, TRUE, FALSE, FALSE),
      KeyRecord(TRUE, FALSE, FALSE, FALSE, FALSE, TRUE, FALSE),
      KeyRecord(TRUE, FALSE, FALSE, FALSE, FALSE, FALSE, TRUE) }

\* A car cruising west along the road through the spawn point in 6th gear of
\* the manual transmission, at 140 km/h.
CruisingCar == SessionVehicle("car", <<10000000, 0, 270000>>, 700000, 6, FALSE)

InitRun ==
    /\ LightsAtConstruction
    /\ vehicle \in {Construct("car"), CruisingCar}
    /\ buildings = GameBuildings
    /\ keys = NoKeys
    /\ collided = FALSE
    /\ tick = 0
    /\ shift_elapsed = -1
    /\ NoHarness
    /\ NoNpc
    /\ NoLoad

NextRun == \E k \in RunKeys : \E dt \in LoopDts : tick < MaxRunTicks /\ GameTick(k, dt)

SpecRun == InitRun /\ [][NextRun]_vars

(***************************************************************************)
(* Accelerating from rest: a newly constructed Car (speed 0, gear 1,       *)
(* automatic mode) with only accelerate held, on every tick                *)
(***************************************************************************)

\* Number of loop iterations with accelerate held.
MaxAccelTicks == 120

AccelerateKeys == KeyRecord(TRUE, FALSE, FALSE, FALSE, FALSE, FALSE, FALSE)

InitAccel ==
    /\ LightsAtConstruction
    /\ vehicle = Construct("car")
    /\ buildings = GameBuildings
    /\ keys = NoKeys
    /\ collided = FALSE
    /\ tick = 0
    /\ shift_elapsed = -1
    /\ NoHarness
    /\ NoNpc
    /\ NoLoad

NextAccel == \E dt \in LoopDts : tick < MaxAccelTicks /\ GameTick(AccelerateKeys, dt)

SpecAccel == InitAccel /\ [][NextAccel]_vars

\* The same run for as long as the car takes to reach its top speed.  The
\* loop of Game.run takes its next iteration as long as the game runs.
MaxClimbTicks == 930

NextClimb == \E dt \in LoopDts : tick < MaxClimbTicks /\ GameTick(AccelerateKeys, dt)

ClimbTaken == tick < MaxClimbTicks /\ tick' = tick + 1

SpecClimb == InitAccel /\ [][NextClimb]_vars /\ WF_tick(ClimbTaken)

(***************************************************************************)
(* The game loop with a Car in manual mode and the shift keys              *)
(***************************************************************************)

\* Number of loop iterations: a shift lasts 36 of them.
MaxManualTicks == 38

\* What pygame.key.get_pressed() holds in a tick: nothing, K_e, or K_q.
ShiftKeys ==
    { NoKeys,
      KeyRecord(FALSE, FALSE, FALSE, FALSE, FALSE, TRUE, FALSE),
      KeyRecord(FALSE, FALSE, FALSE, FALSE, TRUE, FALSE, FALSE) }

\* A Car switched to manual mode with K_t, at rest or rolling, in a gear
\* chosen with K_q / K_e.
InitManual ==
    /\ LightsAtConstruction
    /\ \E g \in {1, 3, 6}, s \in {0, 500000} :
          vehicle = [Construct("car") EXCEPT !.auto_transmission = FALSE,
                                            !.current_gear = g, !.speed = s]
    /\ buildings = GameBuildings
    /\ keys = NoKeys
    /\ collided = FALSE
    /\ tick = 0
    /\ shift_elapsed = -1
    /\ NoHarness
    /\ NoNpc
    /\ NoLoad

NextManual == \E k \in ShiftKeys, dt \in LoopDts : tick < MaxManualTicks /\ GameTick(k, dt)

SpecManual == InitManual /\ [][NextManual]_vars

(***************************************************************************)
(* check_building_collision called directly                                *)
(***************************************************************************)

\* Coordinates of the vehicle: touching the faces x = 8, x = 12, z = 8 of the
\* first building of GameBuildings with the box of the car (0.6) and of the
\* motorcycle (0.3), one step (1e-6) inside them, at the centres of the two
\* buildings, and at the spawn point.
CollideXs == {0, 7400000, 7400001, 7700000, 7700001, 10000000, 12599999, 12600000, -10500000}
CollideZs == {0, 7400000, 7400001, 7700000, 7700001, 10000000}

\* The lists of buildings the method is given: destroyed is an attribute
\* every Building has (no code of the repository sets it).
CollideBuildings ==
    { << >> } \cup
    { << [GameBuildings[1] EXCEPT !.destroyed = d1],
         [GameBuildings[2] EXCEPT !.destroyed = d2] >> : d1 \in BOOLEAN, d2 \in BOOLEAN }

InitCollide ==
    /\ LightsAtConstruction
    /\ \E kind \in {"car", "motorcycle"}, x \in CollideXs, z \in CollideZs :
          vehicle = [Construct(kind) EXCEPT !.x = x, !.z = z]
    /\ buildings \in CollideBuildings
    /\ keys = NoKeys
    /\ collided = FALSE
    /\ tick = 0
    /\ shift_elapsed = -1
    /\ NoHarness
    /\ NoNpc
    /\ NoLoad

\* vehicle.check_building_collision(buildings)
CallCheckBuildingCollision ==
    /\ op = ""
    /\ op' = "check_building_collision"
    /\ collided' = check_building_collision(vehicle, buildings)
    /\ UNCHANGED <<lightVars, vehicle, buildings, keys, tick, shift_elapsed>>
    /\ UNCHANGED <<start_gear, gear_changes, gear_trace, npcVars, loadVars>>

NextCollide == CallCheckBuildingCollision

SpecCollide == InitCollide /\ [][NextCollide]_vars

(***************************************************************************)
(* NPC traffic: scenes of a running session                                *)
(***************************************************************************)

\* The lights as update_traffic_lights leaves them when the master is in
\* `state` with its timer at `timer`.
LightsInPhase(state, timer) ==
    SyncLights(create_traffic_lights,
               [Master(create_traffic_lights) EXCEPT !.state = state, !.state_timer = timer])

\* The lights in mid-session; the calls so far did not all have the same dt.
LightsInSession(state, timer) ==
    /\ traffic_lights = LightsInPhase(state, timer)
    /\ phase_clock = -1
    /\ dt_used = -2

\* An NPC car that has stopped for its light or for a car.
Stopped(n) == [n EXCEPT !.speed = 0, !.stopped_for_light = TRUE]

\* A north-bound car standing in its lane 1.9 short of the intersection centre.
StoppedAtLight == Stopped(NPCCar(-1000, -1900, "north", 250))

\* The rest of the session while methods of NPC cars are called directly.
NoSession ==
    /\ vehicle = Construct("car")
    /\ buildings = << >>
    /\ keys = NoKeys
    /\ collided = FALSE
    /\ tick = 0
    /\ shift_elapsed = -1
    /\ start_gear = 0
    /\ gear_changes = 0
    /\ gear_trace = << >>
    /\ NoLoad

(***************************************************************************)
(* NPCCar.check_traffic_light called directly                              *)
(***************************************************************************)

\* Coordinates of the cars the method is called on: on, just inside and just
\* outside the circle of radius stop_distance, in the lanes, and far away.
CheckCoords == {-4000, -3873, -3872, -1000, 0, 1000, 2400, 3200, 3999, 4000, 30000}

InitCheck ==
    /\ \E state \in LightStates : LightsInSession(state, 0)
    /\ \E x \in CheckCoords, z \in CheckCoords, d \in Directions :
          npc_cars = <<NPCCar(x, z, d, 250)>>
    /\ npc_spawn_timer = 0
    /\ twin_cars = << >>
    /\ npc_updated = << >>
    /\ returned = << >>
    /\ op = ""
    /\ NoSession

CallCheckTrafficLight ==
    /\ op = ""
    /\ op' = "check_traffic_light"
    /\ returned' = <<check_traffic_light(npc_cars[1], traffic_lights)>>
    /\ UNCHANGED <<lightVars, gameVars, start_gear, gear_changes, gear_trace>>
    /\ UNCHANGED <<npc_cars, npc_spawn_timer, twin_cars, npc_updated, loadVars>>

NextCheck == CallCheckTrafficLight

SpecCheck == InitCheck /\ [][NextCheck]_vars

(***************************************************************************)
(* NPCCar.update_ai called directly on a car with another car near it      *)
(***************************************************************************)

\* A car of the given direction in its lane, 10 units from the centre on the
\* side its spawn point is on.
InLane(d) ==
    CASE d = "north" -> NPCCar(-1000, -10000, d, 250)
      [] d = "south" -> NPCCar(1000, 10000, d, 250)
      [] d = "east" -> NPCCar(-10000, -1000, d, 250)
      [] OTHER -> NPCCar(10000, 1000, d, 250)

\* Speeds of the car update_ai is called on, and of the other car.
FollowerSpeeds == {20, 100, 250}
LeaderSpeeds == {0, 89, 90, 225, 250}

\* Where the other car is, relative to the first: along its axis of travel
\* and across it.
AlongOffsets == {-3600, -2000, 2000, 3600}
AcrossOffsets == {0, 1400, 1600}

\* The other car, `along` further in the +x / +z sense of the first car's
\* axis of travel and `across` to the side.
OtherCar(n, d, along, across, speed) ==
    IF n.direction \in {"east", "west"}
    THEN NPCCar(n.x + along, n.z + across, d, speed)
    ELSE NPCCar(n.x + across, n.z + along, d, speed)

InitFollow ==
    /\ \E state \in {"green", "red"} : LightsInSession(state, 0)
    /\ \E d \in Directions, s \in FollowerSpeeds, d2 \in Directions,
          along \in AlongOffsets, across \in AcrossOffsets, s2 \in LeaderSpeeds :
          LET n == [InLane(d) EXCEPT !.speed = s]
          IN npc_cars = <<n, OtherCar(n, d2, along, across, s2)>>
    /\ npc_spawn_timer = 0
    /\ twin_cars = << >>
    /\ npc_updated = << >>
    /\ returned = << >>
    /\ op = ""
    /\ NoSession

\* npc_cars[1].update_ai(traffic_lights, True, [npc_cars[2]])
CallUpdateAi ==
    /\ op = ""
    /\ op' = "update_ai"
    /\ \E draw \in DrawsOf(npc_cars[1], traffic_lights, <<npc_cars[2]>>) :
          npc_cars' = [npc_cars EXCEPT
                         ![1] = update_ai(npc_cars[1], traffic_lights, <<npc_cars[2]>>, draw)]
    /\ returned' = <<update_ai_result(npc_cars'[1])>>
    /\ UNCHANGED <<lightVars, gameVars, start_gear, gear_changes, gear_trace>>
    /\ UNCHANGED <<npc_spawn_timer, twin_cars, npc_updated, loadVars>>

NextFollow == CallUpdateAi

SpecFollow == InitFollow /\ [][NextFollow]_vars

(***************************************************************************)
(* NPCCar.update_ai called again and again on one car, with any light      *)
(* state and any car near it in each call                                  *)
(***************************************************************************)

\* Number of calls followed.
MaxDriveTicks == 6

\* A car of the given direction in its lane, 3 short of the intersection
\* centre: inside the stop distance of its light.
AtLight(d, speed) ==
    CASE d = "north" -> NPCCar(-1000, -3000, d, speed)
      [] d = "south" -> NPCCar(1000, 3000, d, speed)
      [] d = "east" -> NPCCar(-3000, -1000, d, speed)
      [] OTHER -> NPCCar(3000, 1000, d, speed)

\* The car in mid-session: as constructed; slowing down, one call and two
\* calls before it stops (250 - 15 k); stopped; waiting to accelerate, with
\* one call and with several calls of its delay left; accelerating after the
\* wait (8 k: its first step and the last one below target_speed).
Driving(n) ==
    { n,
      [n EXCEPT !.speed = 25], [n EXCEPT !.speed = 10],
      Stopped(n),
      [Stopped(n) EXCEPT !.is_waiting_to_accelerate = TRUE, !.acceleration_delay = 100],
      [Stopped(n) EXCEPT !.is_waiting_to_accelerate = TRUE, !.acceleration_delay = 1340],
      [n EXCEPT !.speed = 8], [n EXCEPT !.speed = 8 * (n.target_speed \div 8)] }

\* The other_cars of a call: none, or one car of the same direction 3 along
\* the axis of travel to either side of the car, standing or at full speed.
Neighbours(n) ==
    {<< >>} \cup { <<OtherCar(n, n.direction, along, 0, speed)>> :
                      along \in {-3000, 3000}, speed \in {0, 250} }

InitDrive ==
    /\ \E state \in LightStates : LightsInSession(state, 0)
    /\ \E d \in Directions, s \in {150, 250} : \E n \in Driving(AtLight(d, s)) :
          npc_cars = <<n>>
    /\ npc_spawn_timer = 0
    /\ twin_cars = << >>
    /\ npc_updated = << >>
    /\ returned = << >>
    /\ op = ""
    /\ NoSession

\* npc_cars[1].update_ai(traffic_lights, True, other_cars), the lights being
\* in any phase.
DriveCall ==
    /\ tick < MaxDriveTicks
    /\ tick' = tick + 1
    /\ \E state \in LightStates, others \in Neighbours(npc_cars[1]) :
          LET lights == LightsInPhase(state, 0) IN
          /\ traffic_lights' = lights
          /\ \E draw \in DrawsOf(npc_cars[1], lights, others) :
                npc_cars' = <<update_ai(npc_cars[1], lights, others, draw)>>
    /\ returned' = <<update_ai_result(npc_cars'[1])>>
    /\ UNCHANGED <<phase_clock, dt_used, vehicle, buildings, keys, collided, shift_elapsed>>
    /\ UNCHANGED <<harnessVars, npc_spawn_timer, twin_cars, npc_updated, loadVars>>

NextDrive == DriveCall

SpecDrive == InitDrive /\ [][NextDrive]_vars

(***************************************************************************)
(* A car driving up to a car that stands in its lane                       *)
(***************************************************************************)

\* Number of calls followed: 17 to come to rest from 0.25, and the shortest
\* delay with one car in front, (0.3 + 0.4) * 0.8 = 0.56 s, 34 calls.
MaxFollowTicks == 60

\* A newly constructed north-bound car, and 3.4 in front of it a car
\* standing in the lane, 10 short of the intersection centre.
InitTail ==
    /\ \E state \in {"green", "red"} : LightsInSession(state, 0)
    /\ npc_cars = <<NPCCar(-1000, -13400, "north", 250),
                    Stopped(NPCCar(-1000, -10000, "north", 250))>>
    /\ npc_spawn_timer = 0
    /\ twin_cars = << >>
    /\ npc_updated = << >>
    /\ returned = << >>
    /\ op = ""
    /\ NoSession

\* npc_cars[1].update_ai(traffic_lights, True, [npc_cars[2]]), in frame
\* after frame; the car in front is left standing.
FollowCall ==
    /\ tick < MaxFollowTicks
    /\ tick' = tick + 1
    /\ \E draw \in DrawsOf(npc_cars[1], traffic_lights, <<npc_cars[2]>>) :
          npc_cars' = [npc_cars EXCEPT
                         ![1] = update_ai(npc_cars[1], traffic_lights, <<npc_cars[2]>>, draw)]
    /\ returned' = <<update_ai_result(npc_cars'[1])>>
    /\ UNCHANGED <<lightVars, vehicle, buildings, keys, collided, shift_elapsed>>
    /\ UNCHANGED <<harnessVars, npc_spawn_timer, twin_cars, npc_updated, loadVars>>

NextTail == FollowCall

SpecTail == InitTail /\ [][NextTail]_vars

(***************************************************************************)
(* A car at the light when the light turns green                           *)
(***************************************************************************)

\* Number of frames followed: the longest delay without a queue is
\* 0.7 * 1.2 = 0.84 s, 51 frames, after at most 10 frames of red-yellow.
MaxReleaseTicks == 70

\* A north-bound car inside the stop distance, slowed to 0.1 and still moving.
Approaching == [NPCCar(-1000, -3000, "north", 250) EXCEPT !.speed = 100]

InitRelease ==
    /\ \E t \in {yellow_duration - 10, yellow_duration - 1} : LightsInSession("red-yellow", t)
    /\ npc_cars \in {<<StoppedAtLight>>, <<Approaching>>}
    /\ npc_spawn_timer = 0
    /\ twin_cars = << >>
    /\ npc_updated = << >>
    /\ returned = << >>
    /\ op = ""
    /\ NoSession

NextRelease == \E dt \in LoopDts : tick < MaxReleaseTicks /\ TrafficFrame(dt)

\* The loop of Game.run goes on to its next frame.
FrameTaken == tick < MaxReleaseTicks /\ tick' = tick + 1

\* Game.run takes a frame on every pass of its loop, and every step of
\* NextRelease is such a frame.
SpecRelease == InitRelease /\ [][NextRelease]_vars /\ WF_tick(FrameTaken)

(***************************************************************************)
(* NPCCar.calculate_acceleration_delay called on the cars of a queue        *)
(***************************************************************************)

\* Gaps between neighbours of the queue along the road, and the sideways
\* positions of its cars within the lane.
QueueGaps == {2500, 3600, 4300}
QueueSides == {0, 1400}

\* A stopped car of direction d, `back` behind the head of the queue (the
\* head stands 3 short of the centre on the axis the direction names: north
\* is +z, east is +x) and `side` off the line.
Queued(d, back, side) ==
    Stopped(CASE d = "north" -> NPCCar(side, -3000 - back, d, 250)
              [] d = "south" -> NPCCar(side, 3000 + back, d, 250)
              [] d = "east" -> NPCCar(-3000 - back, side, d, 250)
              [] OTHER -> NPCCar(3000 + back, side, d, 250))

InitQueue ==
    /\ LightsInSession("green", 0)
    /\ \E d \in Directions, g1 \in QueueGaps, g2 \in QueueGaps, side \in QueueSides :
          /\ (g1 + g2) * (g1 + g2) + side * side < 8000 * 8000
          /\ npc_cars = <<Queued(d, 0, 0), Queued(d, g1, side), Queued(d, g1 + g2, side)>>
    /\ npc_spawn_timer = 0
    /\ twin_cars = << >>
    /\ npc_updated = << >>
    /\ returned = << >>
    /\ op = ""
    /\ NoSession

\* The other cars of the list, as other_cars.
OtherCars(cars, i) == SelectSeq(cars, LAMBDA c : c # cars[i])

\* car.calculate_acceleration_delay(other_cars) on each car of the queue.
CallCalculateDelay ==
    /\ op = ""
    /\ op' = "calculate_acceleration_delay"
    /\ \E d1 \in DelayDraws, d2 \in DelayDraws, d3 \in DelayDraws :
          returned' =
             << calculate_acceleration_delay(npc_cars[1], OtherCars(npc_cars, 1), d1),
                calculate_acceleration_delay(npc_cars[2], OtherCars(npc_cars, 2), d2),
                calculate_acceleration_delay(npc_cars[3], OtherCars(npc_cars, 3), d3) >>
    /\ UNCHANGED <<lightVars, gameVars, start_gear, gear_changes, gear_trace>>
    /\ UNCHANGED <<npc_cars, npc_spawn_timer, twin_cars, npc_updated, loadVars>>

NextQueue == CallCalculateDelay

SpecQueue == InitQueue /\ [][NextQueue]_vars

(***************************************************************************)
(* NPC cars reaching the world bound                                       *)
(***************************************************************************)

\* Number of frames followed.
MaxRemoveTicks == 4

\* A north-bound car one step short of z = 60, a 'west' car (heading +x) one
\* step from crossing x = 60, and a car in mid-field.
NearNorthEdge == NPCCar(-1000, 59750, "north", 250)
LeavingEast == NPCCar(59900, 1000, "west", 350)
MidField == NPCCar(-1000, -20000, "north", 150)

InitRemove ==
    /\ LightsInSession("green", 0)
    /\ npc_cars \in { <<LeavingEast, NearNorthEdge, MidField>>,
                      <<MidField, LeavingEast, NearNorthEdge>>,
                      <<NearNorthEdge, MidField>> }
    /\ npc_spawn_timer \in {0, npc_spawn_interval - 3, npc_spawn_interval - 2}
    /\ twin_cars = << >>
    /\ npc_updated = << >>
    /\ returned = << >>
    /\ op = ""
    /\ NoSession

NextRemove == \E dt \in LoopDts : tick < MaxRemoveTicks /\ TrafficFrame(dt)

SpecRemove == InitRemove /\ [][NextRemove]_vars

(***************************************************************************)
(* Two runs of the NPC traffic from the same state with the same dt        *)
(***************************************************************************)

\* Number of frames the two runs are followed.
MaxTwinTicks == 3

InitTwin ==
    /\ LightsInSession("red-yellow", yellow_duration - 1)
    /\ \/ npc_cars = << >> /\ npc_spawn_timer = npc_spawn_interval - 1
       \/ npc_cars = <<StoppedAtLight>> /\ npc_spawn_timer = 0
    /\ twin_cars = npc_cars
    /\ npc_updated = << >>
    /\ returned = << >>
    /\ vehicle = Construct("car")
    /\ buildings = << >>
    /\ keys = NoKeys
    /\ collided = FALSE
    /\ tick = 0
    /\ shift_elapsed = -1
    /\ NoHarness
    /\ NoLoad

NextTwin == \E dt \in LoopDts : tick < MaxTwinTicks /\ TwinFrame(dt)

SpecTwin == InitTwin /\ [][NextTwin]_vars

(***************************************************************************)
(* LoadingScreen.update called until the load is complete, and beyond      *)
(***************************************************************************)

\* Number of calls of update followed.
MaxLoadCalls == 11

InitLoading ==
    /\ LightsAtConstruction
    /\ vehicle = Construct("car")
    /\ buildings = << >>
    /\ keys = NoKeys
    /\ collided = FALSE
    /\ tick = 0
    /\ shift_elapsed = -1
    /\ NoHarness
    /\ NoNpc
    /\ tracks = << >>
    /\ site = NoSite
    /\ loading = LoadingScreen

CallUpdate ==
    /\ loading.calls < MaxLoadCalls
    /\ \E raised \in BOOLEAN, stage_progress \in StageProgress :
          loading' = update(loading, raised, stage_progress)
    /\ UNCHANGED <<tracks, site, lightVars, gameVars, harnessVars, npcVars>>

NextLoading == CallUpdate

\* The caller goes on calling update while is_complete returns False.
SpecLoading == InitLoading /\ [][NextLoading]_vars /\ WF_vars(CallUpdate)

(***************************************************************************)
(* Game.__init__ constructing its tracks                                   *)
(***************************************************************************)

InitTracks ==
    /\ LightsAtConstruction
    /\ NoSession
    /\ op = ""
    /\ NoNpc

NextTracks == StartTrack \/ PlaceBuilding \/ TrackBuilt

SpecTracks == InitTracks /\ [][NextTracks]_vars

(***************************************************************************)
(* The transmission called directly: shift_up, shift_down and              *)
(* update_gear_shifting(1/60) on a newly constructed Car                   *)
(***************************************************************************)

InitShift ==
    /\ LightsAtConstruction
    /\ vehicle = Construct("car")
    /\ buildings = << >>
    /\ keys = NoKeys
    /\ collided = FALSE
    /\ tick = 0
    /\ shift_elapsed = -1
    /\ NoHarness
    /\ NoNpc
    /\ NoLoad

ShiftStarted(before, after) == after.is_shifting /\ ~before.is_shifting

CallShiftUp ==
    /\ vehicle' = shift_up(vehicle)
    /\ op' = "shift_up"
    /\ shift_elapsed' = IF ShiftStarted(vehicle, vehicle') THEN 0 ELSE shift_elapsed
    /\ UNCHANGED <<lightVars, buildings, keys, collided, tick, start_gear, gear_changes, gear_trace, npcVars, loadVars>>

CallShiftDown ==
    /\ vehicle' = shift_down(vehicle)
    /\ op' = "shift_down"
    /\ shift_elapsed' = IF ShiftStarted(vehicle, vehicle') THEN 0 ELSE shift_elapsed
    /\ UNCHANGED <<lightVars, buildings, keys, collided, tick, start_gear, gear_changes, gear_trace, npcVars, loadVars>>

CallUpdateGearShifting ==
    /\ vehicle' = update_gear_shifting(vehicle, FrameDt)
    /\ op' = "update_gear_shifting"
    /\ shift_elapsed' = IF vehicle.is_shifting THEN shift_elapsed + FrameDt ELSE shift_elapsed
    /\ UNCHANGED <<lightVars, buildings, keys, collided, tick, start_gear, gear_changes, gear_trace, npcVars, loadVars>>

NextShift == CallShiftUp \/ CallShiftDown \/ CallUpdateGearShifting

SpecShift == InitShift /\ [][NextShift]_vars

(***************************************************************************)
(* A Car in automatic mode with its speed held at an auto-shift boundary:  *)
(* each tick runs update_rpm, update_gear_shifting(1/60) and auto_shift,   *)
(* as Car.update does, and the speed is put back                           *)
(***************************************************************************)

\* Number of ticks the speed is held.
HoldTicks == 100

\* Longest gear_trace kept.
MaxTrace == 8

\* The thresholds of auto_shift, in km/h.
UpshiftKmh(gear) ==
    CASE gear = 1 -> 25 [] gear = 2 -> 45 [] gear = 3 -> 70 [] gear = 4 -> 95
      [] gear = 5 -> 120 [] OTHER -> 0
DownshiftKmh(gear) ==
    CASE gear = 6 -> 100 [] gear = 5 -> 75 [] gear = 4 -> 55 [] gear = 3 -> 35
      [] gear = 2 -> 20 [] OTHER -> 0

BoundaryKmh == {UpshiftKmh(g) : g \in 1..5} \cup {DownshiftKmh(g) : g \in 2..6}

\* current_speed_kmh = abs(speed) * 200
SpeedOfKmh(kmh) == (kmh * 1000000) \div 200

InitHold ==
    /\ LightsAtConstruction
    /\ \E gear \in 1..6 : \E kmh \in BoundaryKmh :
          /\ vehicle = SessionVehicle("car", <<10000000, 0, 270000>>, SpeedOfKmh(kmh), gear, TRUE)
          /\ start_gear = gear
    /\ buildings = << >>
    /\ keys = NoKeys
    /\ collided = FALSE
    /\ tick = 0
    /\ shift_elapsed = -1
    /\ op = ""
    /\ gear_changes = 0
    /\ gear_trace = << >>
    /\ NoNpc
    /\ NoLoad

\* gear_trace after a step that took the gear from `before` to `after`; the
\* trace is kept to MaxTrace entries.
NextGearTrace(before, after) ==
    IF after # before /\ Len(gear_trace) < MaxTrace
    THEN Append(gear_trace, after) ELSE gear_trace

HoldTick ==
    /\ tick < HoldTicks
    /\ LET w == update_gear_shifting(update_rpm(vehicle), FrameDt)
           u == IF w.auto_transmission THEN auto_shift(w) ELSE w
       IN /\ vehicle' = u
          /\ gear_changes' = IF u.current_gear # vehicle.current_gear
                             THEN gear_changes + 1 ELSE gear_changes
          /\ gear_trace' = NextGearTrace(vehicle.current_gear, u.current_gear)
          /\ shift_elapsed' = IF ShiftStarted(w, u) THEN 0
                              ELSE IF vehicle.is_shifting THEN shift_elapsed + FrameDt
                              ELSE shift_elapsed
    /\ tick' = tick + 1
    /\ UNCHANGED <<lightVars, buildings, keys, collided, op, start_gear, npcVars, loadVars>>

NextHold == HoldTick

SpecHold == InitHold /\ [][NextHold]_vars

(***************************************************************************)
(* A Car in automatic mode with its speed held at any constant value, for  *)
(* as long as the loop runs: the same tick as above, without a tick count  *)
(***************************************************************************)

\* Held speeds in km/h: every multiple of 5 from the reverse floor
\* (-max_speed/3 = -60 km/h) to max_speed (180 km/h); the thresholds of
\* auto_shift are among them.
SettleKmh == {5 * i : i \in -12..36}

InitSettle ==
    /\ LightsAtConstruction
    /\ \E gear \in 1..6 : \E kmh \in SettleKmh :
          /\ vehicle = SessionVehicle("car", <<10000000, 0, 270000>>, SpeedOfKmh(kmh), gear, TRUE)
          /\ start_gear = gear
    /\ buildings = << >>
    /\ keys = NoKeys
    /\ collided = FALSE
    /\ tick = 0
    /\ shift_elapsed = -1
    /\ op = ""
    /\ gear_changes = 0
    /\ gear_trace = << >>
    /\ NoNpc
    /\ NoLoad

SettleTick ==
    /\ LET w == update_gear_shifting(update_rpm(vehicle), FrameDt)
           u == IF w.auto_transmission THEN auto_shift(w) ELSE w
       IN /\ vehicle' = u
          /\ gear_trace' = NextGearTrace(vehicle.current_gear, u.current_gear)
          /\ shift_elapsed' = IF ShiftStarted(w, u) THEN 0
                              ELSE IF vehicle.is_shifting THEN shift_elapsed + FrameDt
                              ELSE shift_elapsed
    /\ UNCHANGED <<lightVars, buildings, keys, collided, tick, op, start_gear, gear_changes, npcVars, loadVars>>

NextSettle == SettleTick

\* The game loop keeps running: a tick that is due is taken.
SpecSettle == InitSettle /\ [][NextSettle]_vars /\ WF_vars(SettleTick)

InitLights ==
    /\ LightsAtConstruction
    /\ vehicle = Construct("car")
    /\ buildings = << >>
    /\ keys = NoKeys
    /\ collided = FALSE
    /\ tick = 0
    /\ shift_elapsed = -1
    /\ NoHarness
    /\ NoNpc
    /\ NoLoad

NextLights == \E dt \in DtChoices : TrackUpdate(dt) /\ UNCHANGED <<gameVars, harnessVars, npcVars, loadVars>>

SpecLights == InitLights /\ [][NextLights]_vars

\* update_traffic_lights called again and again with the dt > 0 of the first
\* call.  Game.run calls it once per iteration of its loop.
NextFixedDt ==
    \E dt \in DtChoices \ {0} :
        /\ dt_used \in {-1, dt}
        /\ TrackUpdate(dt)
        /\ UNCHANGED <<gameVars, harnessVars, npcVars, loadVars>>

SpecFixedDt == InitLights /\ [][NextFixedDt]_vars /\ WF_vars(NextFixedDt)

(***************************************************************************)
(* Claims on the traffic lights                                            *)
(***************************************************************************)

Horizontals == {i \in DOMAIN traffic_lights : traffic_lights[i].direction = "horizontal"}
Verticals == {i \in DOMAIN traffic_lights : traffic_lights[i].direction = "vertical"}

\* C1: in the state after construction and after every update_traffic_lights
\* call, no horizontal light and vertical light of the intersection are both
\* green, and none are both yellow.
C1_NeverBothGreenOrYellow ==
    \A h \in Horizontals : \A v \in Verticals :
        /\ ~(traffic_lights[h].state = "green" /\ traffic_lights[v].state = "green")
        /\ ~(traffic_lights[h].state = "yellow" /\ traffic_lights[v].state = "yellow")

\* The horizontal stream has been given green by an update (the vertical
\* stream, green at construction, had to leave green).
C1_Witness ==
    /\ dt_used # -1
    /\ \E h \in Horizontals : traffic_lights[h].state = "green"
    /\ \E v \in Verticals : traffic_lights[v].state = "red"

\* The complementary phase of the claim: green->red, yellow->red-yellow,
\* red->green, red-yellow->yellow.
C2_Complement ==
    [s \in LightStates |->
        IF s = "green" THEN "red"
        ELSE IF s = "yellow" THEN "red-yellow"
        ELSE IF s = "red" THEN "green" ELSE "yellow"]

\* C2: after every update_traffic_lights call every light has the master's
\* timer, every horizontal light the master's state and every vertical light
\* the complement of the master's state.
C2_LightsFollowMaster ==
    dt_used # -1 =>
        LET m == Master(traffic_lights) IN
        /\ \A i \in DOMAIN traffic_lights : traffic_lights[i].state_timer = m.state_timer
        /\ \A h \in Horizontals : traffic_lights[h].state = m.state
        /\ \A v \in Verticals : traffic_lights[v].state = C2_Complement[m.state]

\* An update has left the master yellow part-way through the phase, the
\* vertical lights red-yellow with the same timer.
C2_Witness ==
    /\ dt_used # -1
    /\ Master(traffic_lights).state = "yellow"
    /\ Master(traffic_lights).state_timer > 0
    /\ \A v \in Verticals : traffic_lights[v].state = "red-yellow"
                             /\ traffic_lights[v].state_timer > 0

\* The fixed dt values of the model that divide both phase durations.
DividingDts ==
    {d \in DtChoices : d > 0 /\ green_duration % d = 0 /\ yellow_duration % d = 0}

\* The phase the claim gives the master t after it turned green: 5 s green,
\* 2 s yellow, 5 s red, 2 s red-yellow, in seconds of 60 units.
C3_PhaseAt(t) ==
    IF t < 5 * 60 THEN "green"
    ELSE IF t < 7 * 60 THEN "yellow"
    ELSE IF t < 12 * 60 THEN "red"
    ELSE "red-yellow"

C4_NoOverlapAtTickEnd ==
    \A i \in DOMAIN buildings :
        ~buildings[i].destroyed => ~Overlaps(vehicle, buildings[i])

\* A tick has ended in which the update moved the vehicle into a building and
\* the collision step acted.
C4_Witness == tick > 0 /\ collided /\ keys.up

\* C5: in every tick in which the position computed by the update overlaps a
\* non-destroyed building, the vehicle ends the tick at the x and z it had
\* before the update, with speed exactly 0.
C5_CollisionRollback ==
    [][(tick' = tick + 1 /\ collided')
         => (vehicle'.x = vehicle.x /\ vehicle'.z = vehicle.z /\ vehicle'.speed = 0)]_vars

\* A vehicle that was moving at the turning threshold or faster has been
\* stopped by a collision and stands where the update stored prev_x, prev_z.
C5_Witness ==
    /\ collided
    /\ tick = 1
    /\ vehicle.speed = 0
    /\ vehicle.x = vehicle.prev_x /\ vehicle.z = vehicle.prev_z
    /\ vehicle.rpm > idle_rpm(vehicle.kind)

ReverseFloor(kind) == IF kind = "car" THEN -(max_speed(kind) \div 3) ELSE -(max_speed(kind) \div 4)

\* C6: after every tick |speed| <= max_speed, and the speed is never below
\* -max_speed/3 for a Car and -max_speed/4 for a Motorcycle.
C6_SpeedWithinBounds ==
    /\ Abs(vehicle.speed) <= max_speed(vehicle.kind)
    /\ vehicle.speed >= ReverseFloor(vehicle.kind)

\* A tick with the brake held has ended with a motorcycle at its reverse floor.
C6_Witness ==
    /\ tick > 0 /\ keys.down /\ ~collided
    /\ vehicle.kind = "motorcycle"
    /\ vehicle.speed = ReverseFloor(vehicle.kind)

\* C7: after every tick of the vehicle's update the heading angle lies in
\* [0, 360).
C7_HeadingInRange == tick > 0 => (0 <= vehicle.angle /\ vehicle.angle < 360000)

\* C8: each call to shift_up or shift_down either changes current_gear by
\* exactly one step within 1..6 and starts the shift (is_shifting true,
\* shift_timer = shift_duration), or, when the gear is at its bound or a shift
\* is under way, changes nothing.
C8_OneStepOrNothing ==
    [][op' \in {"shift_up", "shift_down"}
         => LET step == IF op' = "shift_up" THEN 1 ELSE -1
                bound == IF op' = "shift_up" THEN 6 ELSE 1
            IN IF vehicle.is_shifting \/ vehicle.current_gear = bound
               THEN vehicle' = vehicle
               ELSE /\ vehicle'.current_gear \in 1..6
                    /\ vehicle' = [vehicle EXCEPT !.current_gear = vehicle.current_gear + step,
                                                  !.is_shifting = TRUE,
                                                  !.shift_timer = shift_duration]]_vars

\* shift_up has just taken the car into 6th gear, one step at a time, and
\* started the shift.
C8_Witness ==
    /\ op = "shift_up"
    /\ vehicle.current_gear = 6
    /\ vehicle.is_shifting
    /\ vehicle.shift_timer = shift_duration

\* The acceleration of the K_UP branch while a shift is under way.
PenalisedAcceleration(v) == GearAcceleration(v) \div shift_speed_reduction

\* is_shifting holds exactly until update_gear_shifting has counted down 36
\* ticks of 1/60 s since the shift began; shift_timer is what remains.
C9_Countdown ==
    (vehicle.kind = "car" /\ shift_elapsed >= 0)
      => /\ vehicle.is_shifting <=> shift_elapsed < shift_duration
         /\ vehicle.shift_timer = IF vehicle.is_shifting
                                  THEN shift_duration - shift_elapsed ELSE 0

\* A tick of the loop with accelerate held that began with a shift under way.
C9_ShiftingTick == tick' = tick + 1 /\ keys'.up /\ vehicle.is_shifting

\* C9: a shift completes (is_shifting false, shift_timer 0) once
\* update_gear_shifting has counted down 36 ticks of 1/60 s and not before; in
\* every tick with accelerate held (brake not held, no collision) that begins
\* with a shift under way, the speed gain is base_acceleration x gear_ratio x
\* 0.1 cut off at the gear's speed ceiling: nothing when the speed is at or
\* above the ceiling.
C9_ShiftWindow ==
    /\ []C9_Countdown
    /\ [][(C9_ShiftingTick /\ ~keys'.down /\ ~collided')
            => LET limit == GearSpeedLimit(vehicle.kind, vehicle.current_gear)
               IN vehicle'.speed - vehicle.speed =
                     IF vehicle.speed < limit
                     THEN Min(PenalisedAcceleration(vehicle), limit - vehicle.speed)
                     ELSE 0]_vars

\* A shift has run its 36 ticks with accelerate held and has just completed.
C9_Witness ==
    /\ shift_elapsed = shift_duration
    /\ ~vehicle.is_shifting /\ vehicle.shift_timer = 0
    /\ keys.up
    /\ tick > shift_duration

\* C9 as stated: the gain in every such tick is base_acceleration x
\* gear_ratio x 0.1.
C9_AsStated ==
    /\ []C9_Countdown
    /\ [][C9_ShiftingTick
            => vehicle'.speed - vehicle.speed = PenalisedAcceleration(vehicle)]_vars

\* The boundary speed is a threshold of the gear itself.
OwnBoundary(gear, speed) ==
    \/ gear \in 1..5 /\ speed = SpeedOfKmh(UpshiftKmh(gear))
    \/ gear \in 2..6 /\ speed = SpeedOfKmh(DownshiftKmh(gear))

\* C10: for a Car in automatic mode held at a boundary speed that is a
\* threshold of the gear it starts in, current_gear changes at most once in
\* 100 ticks.
C10_AtMostOneChange ==
    (start_gear \in 1..6 /\ OwnBoundary(start_gear, vehicle.speed)) => gear_changes <= 1

\* The speed was held for the whole run at a threshold of the starting gear
\* and the gear changed once.
C10_Witness ==
    /\ tick >= HoldTicks
    /\ start_gear \in 1..6 /\ OwnBoundary(start_gear, vehicle.speed)
    /\ gear_changes = 1

\* C10 as stated: held at any boundary speed, in any gear, current_gear
\* changes at most once in 100 ticks.
C10_AsStated == start_gear \in 1..6 => gear_changes <= 1

\* The gears of a held-speed run: the starting gear, then the gears chosen.
GearPath == <<start_gear>> \o gear_trace

OnlyUpshifts(path) == \A i \in 1..(Len(path) - 1) : path[i + 1] = path[i] + 1
OnlyDownshifts(path) == \A i \in 1..(Len(path) - 1) : path[i + 1] = path[i] - 1

C11_Monotone == OnlyUpshifts(GearPath) \/ OnlyDownshifts(GearPath)

\* Every downshift threshold is lower than the upshift threshold of the next
\* lower gear.
C11_Hysteresis == \A gear \in 2..6 : DownshiftKmh(gear) < UpshiftKmh(gear - 1)

\* No shift is under way and auto_shift asks for none.
C11_Settled == ~vehicle.is_shifting /\ auto_shift(vehicle) = vehicle

\* C11: for a Car in automatic mode held at any constant speed and started
\* in any gear 1..6, the gears chosen by auto_shift are only upshifts or only
\* downshifts, the car reaches a gear that never changes again, and every
\* downshift threshold is lower than the upshift threshold of the next lower
\* gear.
C11_MonotoneAndSettles ==
    /\ C11_Hysteresis
    /\ []C11_Monotone
    /\ <>[]C11_Settled

\* The car has gone through two gears or more and has come to rest in one.
C11_Witness == Len(gear_trace) >= 2 /\ C11_Settled

\* C12: from a Car at speed 0, gear 1, automatic mode, with accelerate held
\* on every tick, the car upshifts to gear 2 in the tick in which its speed
\* crosses the 25 km/h threshold (speed x 200 >= 25) and never returns to
\* gear 1 (no gear is entered twice); while in gear 1 the speed stays below
\* the gear-1 ceiling 0.16 x max_speed, which lies above the threshold.
C12_UpshiftAtThreshold ==
    /\ [](vehicle.current_gear = 1 <=> ~KmhAtLeast(vehicle, 25))
    /\ [](vehicle.current_gear = 1 => vehicle.speed < GearSpeedLimit("car", 1))
    /\ [][vehicle'.current_gear \in {vehicle.current_gear, vehicle.current_gear + 1}]_vars

\* The car is in gear 2, its shift is over, and its speed has passed the value
\* of the gear-1 ceiling.
C12_Witness ==
    /\ vehicle.current_gear = 2
    /\ ~vehicle.is_shifting
    /\ vehicle.speed >= GearSpeedLimit("car", 1)
    /\ keys = AccelerateKeys

\* C12 as stated: the speed reaches the gear-1 ceiling, and then the car
\* upshifts to gear 2 as its speed crosses the threshold.
C12_AsStated ==
    [][(vehicle.current_gear = 1 /\ vehicle'.current_gear = 2)
         => (KmhAtLeast(vehicle', 25) /\ vehicle'.speed >= GearSpeedLimit("car", 1))]_vars

\* C13: at the end of every Car or Motorcycle update tick the reported rpm is
\* the value update_rpm computes from the vehicle's current speed and current
\* gear, so that ticks ending with the same speed and gear report the same rpm.
C13_RpmOfSpeedAndGear == tick > 0 => vehicle.rpm = update_rpm(vehicle).rpm

C15_GoverningTag(direction) ==
    IF direction \in {"east", "west"} THEN "vertical" ELSE "horizontal"

C16_Ahead(n, o) ==
    (o.x - n.x) * SinFine(n.angle) + (o.z - n.z) * CosFine(n.angle) > 0

\* The car-following condition: same direction, same lane (lateral offset
\* below 1.5), ahead, closer than 3.5, slower than 90% of the car's speed.
C16_MustFollow(n, o) ==
    /\ o.direction = n.direction
    /\ IF n.direction \in {"east", "west"}
       THEN Abs(o.z - n.z) < 1500 ELSE Abs(o.x - n.x) < 1500
    /\ C16_Ahead(n, o)
    /\ (o.x - n.x) * (o.x - n.x) + (o.z - n.z) * (o.z - n.z) < 3500 * 3500
    /\ o.speed * 10 < n.speed * 9

\* C16: whenever a car of the same direction, in the same lane, ahead and
\* closer than 3.5 is slower than 90% of the NPC's speed, update_ai
\* decelerates the moving NPC in that tick, whatever its light shows.
C16_FollowerSlows ==
    [][ (op' = "update_ai" /\ C16_MustFollow(npc_cars[1], npc_cars[2]))
           => npc_cars'[1].speed < npc_cars[1].speed ]_vars

\* The stop condition of the first NPC car is clear in the frame being taken.
C17_Clear == ~check_traffic_light(npc_cars[1], traffic_lights')

\* A fully stopped car whose stop condition is clear stays at speed 0 in
\* every call that leaves its delay above 0, the delay going down by 1/60 s
\* per call, and accelerates in the call that brings the delay to 0 or below.
C17_StoppedCarWaits ==
    [][ (npc_cars[1].stopped_for_light /\ npc_cars[1].speed = 0 /\ C17_Clear)
          => /\ npc_cars[1].is_waiting_to_accelerate
                  => npc_cars'[1].acceleration_delay = npc_cars[1].acceleration_delay - 100
             /\ npc_cars'[1].acceleration_delay > 0 => npc_cars'[1].speed = 0
             /\ npc_cars'[1].acceleration_delay <= 0 => npc_cars'[1].speed = 8 ]_vars

\* A car still moving and not flagged stopped accelerates in the very call
\* in which its stop condition is clear.
C17_MovingCarResumes ==
    [][ (~npc_cars[1].stopped_for_light /\ npc_cars[1].speed > 0 /\ C17_Clear)
          => npc_cars'[1].speed = Min(npc_cars[1].target_speed, npc_cars[1].speed + 8) ]_vars

\* C17: a fully stopped NPC whose stop condition clears keeps speed 0 until
\* its acceleration delay has counted down to <= 0 (1/60 s per update_ai
\* call) and only then accelerates, which it eventually does; an NPC whose
\* stop condition clears while it is still moving accelerates in that tick.
C17_DelayedRelease ==
    /\ C17_StoppedCarWaits
    /\ C17_MovingCarResumes
    /\ (npc_cars[1].stopped_for_light /\ npc_cars[1].speed = 0) ~> (npc_cars[1].speed > 0)

\* A car that stood still has waited its delay out and makes its first step
\* of acceleration.
C17_Witness ==
    /\ tick >= 15
    /\ npc_cars[1].speed = 8
    /\ npc_cars[1].acceleration_delay <= 0
    /\ ~npc_cars[1].stopped_for_light

C19_Beyond(c) == Abs(c.x) > 60000 \/ Abs(c.z) > 60000

\* The entries of seq at the indices in `keep`, in their order.
RECURSIVE C19_Kept(_, _, _)
C19_Kept(seq, keep, i) ==
    IF i > Len(seq) THEN << >>
    ELSE (IF i \in keep THEN <<seq[i]>> ELSE << >>) \o C19_Kept(seq, keep, i + 1)

\* C19: update_ai returns False exactly when, after moving, |x| > 60 or
\* |z| > 60, and update_npc_cars removes exactly the cars whose update_ai
\* returned False, keeping the others in their original order.
C19_RemovedBeyondBound ==
    tick > 0 =>
        /\ DOMAIN returned = DOMAIN npc_updated
        /\ \A i \in DOMAIN npc_updated : returned[i] <=> ~C19_Beyond(npc_updated[i])
        /\ npc_cars = C19_Kept(npc_updated, {i \in DOMAIN npc_updated : returned[i]}, 1)

\* A car beyond the bound is removed from in front of a car that has come to
\* stand exactly on the bound and stays.
C19_Witness ==
    /\ tick > 0
    /\ \E i, j \in DOMAIN npc_updated :
          /\ i < j
          /\ ~returned[i]
          /\ returned[j] /\ npc_updated[j].z = 60000
    /\ Len(npc_cars) = Len(npc_updated) - 1

\* The open intervals (c1 - h1, c1 + h1) and (c2 - h2, c2 + h2) overlap.
C20_AxisOverlap(c1, h1, c2, h2) == Max(c1 - h1, c2 - h2) < Min(c1 + h1, c2 + h2)

\* C20: check_building_collision returns True if and only if, for at least
\* one building that is not destroyed, the vehicle's square box (half-extent
\* 0.6 for Car, 0.3 for Motorcycle) and the building's box overlap on the x
\* axis and on the z axis at once; a destroyed building never collides.
C20_BoxesOverlap ==
    op = "check_building_collision" =>
        LET half == IF vehicle.kind = "car" THEN 600000 ELSE 300000 IN
        collided <=>
            \E i \in DOMAIN buildings :
                /\ ~buildings[i].destroyed
                /\ C20_AxisOverlap(vehicle.x, half, buildings[i].x, buildings[i].width \div 2)
                /\ C20_AxisOverlap(vehicle.z, half, buildings[i].z, buildings[i].depth \div 2)

\* A motorcycle inside the box of a destroyed building and not touching the
\* standing one is reported as not colliding.
C20_Witness ==
    /\ op = "check_building_collision"
    /\ vehicle.kind = "motorcycle"
    /\ vehicle.x = 10000000 /\ vehicle.z = 10000000
    /\ buildings # << >>
    /\ buildings[1].destroyed /\ ~buildings[2].destroyed
    /\ ~collided

\* The shift-up or the shift-down key goes from released to pressed in the
\* tick being taken.
C21_ShiftEdge == (keys'.e /\ ~keys.e) \/ (keys'.q /\ ~keys.q)

\* C21: in manual mode the Car's gear changes during a tick only if the
\* shift-up or shift-down input goes from released to pressed in that tick
\* and the car is not mid-shift; without such an edge the gear is unchanged.
C21_ShiftOnlyOnEdge ==
    [][ (~vehicle.auto_transmission /\ vehicle'.current_gear # vehicle.current_gear)
           => (C21_ShiftEdge /\ ~vehicle.is_shifting) ]_vars

\* A tick of the loop in which only the given turn key is held, so that the
\* turn is made with the speed the tick began with.
C22_OnlyLeft == tick' = tick + 1 /\ keys'.left /\ ~keys'.right /\ ~keys'.up /\ ~keys'.down
C22_OnlyRight == tick' = tick + 1 /\ keys'.right /\ ~keys'.left /\ ~keys'.up /\ ~keys'.down

\* The least change of heading of a turning tick: 0.3 x turn_speed.
C22_LeastTurn == IF vehicle.kind = "car" THEN 2100 ELSE 2550

\* C22: in every tick in which a turn input is held and |speed| > 0.01 the
\* heading of a Car or Motorcycle changes by turn_speed x max(0.3,
\* |speed|/max_speed), hence by at least 0.3 x turn_speed, turn-left raising
\* it at speed >= 0 and lowering it at speed < 0 (turn-right the opposite);
\* with |speed| <= 0.01 the heading does not change.
C22_TurnRate ==
    [][ (C22_OnlyLeft \/ C22_OnlyRight) =>
          LET change == IF C22_OnlyLeft THEN vehicle'.angle - vehicle.angle
                        ELSE vehicle.angle - vehicle'.angle
          IN IF Abs(vehicle.speed) <= 10000 THEN change = 0
             ELSE IF vehicle.speed >= 0 THEN change >= C22_LeastTurn
             ELSE -change >= C22_LeastTurn ]_vars

\* The two buildings are disjoint on the x axis or on the z axis, without
\* touching.
C23_Apart(a, b) ==
    \/ a.x + a.width \div 2 < b.x - b.width \div 2
    \/ b.x + b.width \div 2 < a.x - a.width \div 2
    \/ a.z + a.depth \div 2 < b.z - b.depth \div 2
    \/ b.z + b.depth \div 2 < a.z - a.depth \div 2

\* All buildings placed so far: of the finished tracks and of the one under
\* construction.
RECURSIVE C23_AllOf(_)
C23_AllOf(ts) == IF ts = << >> THEN << >> ELSE Head(ts) \o C23_AllOf(Tail(ts))
C23_Placed == C23_AllOf(tracks) \o site.buildings

\* C23: whatever the placement attempts draw, no two buildings overlap or
\* touch: every pair of placed buildings, of one Track or of two Tracks 60
\* apart, is disjoint on the x axis or on the z axis.
C23_BuildingsApart ==
    \A i, j \in DOMAIN C23_Placed : i < j => C23_Apart(C23_Placed[i], C23_Placed[j])

\* Both tracks are built; the first holds three buildings in its first
\* quadrant, among them the one just past min_spacing from its neighbour, and
\* the second track has a building on the edge facing the first.
C23_Witness ==
    /\ Len(tracks) = 2
    /\ \E i, j, k \in DOMAIN tracks[1] :
          /\ tracks[1][i] = Proposed(<<0, 0>>, 1, LowCorner)
          /\ tracks[1][j] = Proposed(<<0, 0>>, 1, PastSpacing)
          /\ tracks[1][k] = Proposed(<<0, 0>>, 1, HighCorner)
    /\ \E i \in DOMAIN tracks[2] : tracks[2][i].z - tracks[2][i].depth \div 2 = 35000000

\* The upshift threshold of the gear lies below the gear's speed ceiling, and
\* the car in that gear is below the ceiling.
C24_BelowCeiling ==
    \A g \in 1..5 :
        /\ UpshiftKmh(g) * 1000000 < GearSpeedLimit("car", g) * 200
        /\ vehicle.current_gear = g => vehicle.speed < GearSpeedLimit("car", g)

\* C24: a Car in automatic mode starting at rest in gear 1 with accelerate
\* held on every tick and no collision eventually is in gear 6 at speed =
\* max_speed; on the way the upshift threshold of each gear 1..5 is reached
\* below the gear's speed ceiling, every started shift completes, and the
\* gear only ever goes up by one.
C24_ClimbsToTopGear ==
    /\ <>(vehicle.current_gear = 6 /\ vehicle.speed = max_speed("car"))
    /\ [](~collided /\ C24_BelowCeiling)
    /\ [](vehicle.is_shifting => <>(~vehicle.is_shifting))
    /\ [][vehicle'.current_gear \in {vehicle.current_gear, vehicle.current_gear + 1}]_vars
    /\ [][vehicle.current_gear = 6 /\ vehicle.speed = max_speed("car")
             => vehicle'.current_gear = 6 /\ vehicle'.speed = max_speed("car")]_vars

\* The car is in gear 6 at max_speed, no shift under way, having never
\* collided in the tick before.
C24_Witness ==
    /\ vehicle.current_gear = 6
    /\ vehicle.speed = max_speed("car")
    /\ ~vehicle.is_shifting
    /\ ~collided
    /\ keys = AccelerateKeys

\* C25: under repeated calls of Track.update_traffic_lights with a fixed
\* dt > 0, every light of the intersection, horizontal and vertical, is green
\* infinitely often.
C25_EveryLightGreenAgain ==
    \A i \in 1..4 : []<>(traffic_lights[i].state = "green")

\* After calls with one dt that divides no phase, the horizontal lights are
\* green and the vertical ones red, some way into the phase: the lights have
\* left the green-for-vertical phase they were constructed in.
C25_Witness ==
    /\ dt_used = 7
    /\ \A i \in 1..4 :
          /\ traffic_lights[i].state
                = (IF traffic_lights[i].direction = "horizontal" THEN "green" ELSE "red")
          /\ traffic_lights[i].state_timer > 0

\* C26: after any sequence of update_ai calls, with any signal states and
\* other cars, every NPC car that is waiting to accelerate is flagged
\* stopped, every car flagged stopped has speed 0, and the speed lies
\* between 0 and target_speed.
C26_NpcFlagsConsistent ==
    \A i \in DOMAIN npc_cars :
        LET n == npc_cars[i] IN
        /\ n.is_waiting_to_accelerate => n.stopped_for_light
        /\ n.stopped_for_light => n.speed = 0
        /\ 0 <= n.speed /\ n.speed <= n.target_speed

\* update_ai has been called more than once and the car is waiting out a
\* delay it has just drawn, flagged stopped and at rest.
C26_Witness ==
    /\ tick > 1
    /\ returned = <<TRUE>>
    /\ npc_cars[1].is_waiting_to_accelerate
    /\ npc_cars[1].stopped_for_light
    /\ npc_cars[1].acceleration_delay > 1340
    /\ npc_cars[1].speed = 0

\* The first car has come to rest behind the second, which stands in its
\* direction and lane, in front of it and within collision_distance.
C27_AtRestBehind ==
    LET f == npc_cars[1]
        l == npc_cars[2]
    IN /\ f.speed = 0 /\ f.stopped_for_light
       /\ l.speed = 0
       /\ f.direction = l.direction
       /\ are_cars_in_same_lane(f, l)
       /\ is_car_in_front(f, l)
       /\ DistanceLess(f.x - l.x, f.z - l.z, collision_distance)

\* C27: a follower that has come to rest behind a stopped leader (same
\* direction, same lane, ahead of it, within 3.5) keeps speed 0 and does not
\* move in any call of update_ai while the leader stays stopped there.
C27_FollowerStaysPut ==
    [][ (C27_AtRestBehind /\ npc_cars'[2] = npc_cars[2])
           => /\ npc_cars'[1].speed = 0
              /\ npc_cars'[1].x = npc_cars[1].x
              /\ npc_cars'[1].z = npc_cars[1].z ]_vars

\* The call of update_ai being made moves the first car toward the side on
\* which the second car lies.
C28_MovesToward ==
    (npc_cars'[1].x - npc_cars[1].x) * (npc_cars[2].x - npc_cars[1].x)
       + (npc_cars'[1].z - npc_cars[1].z) * (npc_cars[2].z - npc_cars[1].z) > 0

\* C28: for each of the four directions, is_car_in_front(other) is true
\* exactly for the cars on the side toward which update_ai moves the NPC with
\* the heading its direction gives it.
C28_FrontIsWhereItDrives ==
    [][ (op' = "update_ai" /\ <<npc_cars'[1].x, npc_cars'[1].z>> # <<npc_cars[1].x, npc_cars[1].z>>)
           => (is_car_in_front(npc_cars[1], npc_cars[2]) <=> C28_MovesToward) ]_vars

\* The tasks executed so far are the first stages of the list, in list
\* order, each once.
C29_RanInOrder ==
    /\ Len(loading.ran) <= Len(stages)
    /\ \A i \in DOMAIN loading.ran : loading.ran[i].task = stages[i]

\* C29: update runs each of the 8 stages exactly once, in list order, one
\* per call, a stage whose task raises being recorded as completed like one
\* whose task returns; progress is at most 99 while a stage remains and is
\* 100 (is_complete) from the first call after the last stage, so the load
\* is complete after 9 calls of update.
C29_LoadsInNineCalls ==
    /\ [](/\ C29_RanInOrder
          /\ Len(loading.ran) = Min(loading.calls, Len(stages))
          /\ loading.current_stage = Len(loading.ran)
          /\ loading.tasks_completed = [i \in DOMAIN loading.ran |-> loading.ran[i].task]
          /\ loading.calls <= Len(stages) => loading.progress <= ProgressCap
          /\ is_complete(loading) <=> loading.calls >= Len(stages) + 1)
    /\ <>(is_complete(loading) /\ loading.calls = Len(stages) + 1)

\* The load is complete after 9 calls of update, the task of some stage
\* having raised and the tasks after it having run nevertheless.
C29_Witness ==
    /\ loading.calls = Len(stages) + 1
    /\ is_complete(loading)
    /\ Len(loading.ran) = Len(stages)
    /\ loading.ran[2].raised
    /\ ~loading.ran[3].raised

\* C30: whatever the placement attempts draw, every Track the game has
\* constructed holds at least one building, as load_tracks asserts
\* (len(track.buildings) > 0); the track under construction holds one from
\* its first placement on.
C30_EveryTrackHasABuilding ==
    /\ \A t \in DOMAIN tracks : Len(tracks[t]) > 0
    /\ (site.quadrant > 1 \/ site.i > 1) => Len(site.buildings) > 0

\* Both tracks are built and in the second every building that can fail to
\* find a place was skipped.
C30_Witness ==
    /\ Len(tracks) = Len(TrackPositions)
    /\ Len(tracks[2]) = Len(Quadrants)
    /\ site = NoSite

====
